---------------------------- MODULE Spec2Model ----------------------------
(***************************************************************************)
(* Memory engine and three-stage pipeline of Meera OS.                     *)
(*                                                                         *)
(*   MemoryStorage  (src/src/memory/storage.py): MongoDB document store    *)
(*                  plus ChromaDB vector index.                            *)
(*   VishnuAgent    (src/src/agents/vishnu.py):  BuildContext stage.       *)
(*   BrahmaInterface(src/src/agents/brahma.py):  Generate stage.           *)
(*   ShivaAgent     (src/src/agents/shiva.py):   UpdateMemory stage.       *)
(*   chat           (src/src/api/server.py):     service boundary.         *)
(*                                                                         *)
(* Optional[X] values are modelled as sets with at most one element: {}    *)
(* is None.  Timestamps are integers counting microseconds.  A float       *)
(* recency_value is an integer counting tenths.                            *)
(***************************************************************************)
EXTENDS Integers, Sequences, FiniteSets, TLC

VARIABLES
    memory_collection,    \* MongoDB: _id -> memory document
    identity_collection,  \* MongoDB: _id -> identity document
    chroma_collection,    \* ChromaDB: id -> [embedding, metadata, document]
    last,                 \* the last MemoryStorage call: arguments and outcome
    writes,               \* number of writing calls made so far
    reads,                \* number of queries made since the last write
    config,               \* config.yaml: the agents' feature flags
    req,                  \* the chat requests: stage reached, context, outcome
    now,                  \* datetime.utcnow(), in microseconds
    next_uuid,            \* uuid.uuid4(): the next fresh identifier
    injected,             \* number of faults the environment has injected
    saves,                \* the save_memory calls in flight: step reached, writes done
    agent_call            \* the last call of an agent's method: arguments and outcome

store_vars == <<memory_collection, identity_collection, chroma_collection>>

call_vars == <<last, writes, reads>>
pipeline_vars == <<config, req, now, next_uuid, injected>>

(***************************************************************************)
(* Bounds of the model.                                                    *)
(***************************************************************************)
NumIds == 2
MaxWrites == 2
MaxReads == 1
NumRequests == 2
MaxFaults == 1
MaxDisabled == 1

(***************************************************************************)
(* Python helpers.                                                         *)
(***************************************************************************)
None == {}
Some(x) == {x}
The(opt) == CHOOSE x \in opt : TRUE

\* A local name bound to a value: F applied to the one element of S.
Bind(S, F(_)) == The({F(x) : x \in S})

\* str(bool)
Str(b) == IF b THEN "True" ELSE "False"

\* sep.join(xs): the elements with the separator between neighbours
RECURSIVE Join(_, _)
Join(sep, xs) ==
    IF Len(xs) = 0 THEN <<>>
    ELSE IF Len(xs) = 1 THEN <<xs[1]>>
    ELSE <<xs[1], sep>> \o Join(sep, Tail(xs))

\* all orderings of a finite set, as sequences without repetition
Orderings(S) ==
    {s \in [1..Cardinality(S) -> S] : \A i, j \in 1..Cardinality(S) : i # j => s[i] # s[j]}

\* xs[:n] for n >= 0
Prefix(xs, n) == SubSeq(xs, 1, IF n < Len(xs) THEN n ELSE Len(xs))

Range(xs) == {xs[i] : i \in DOMAIN xs}

(***************************************************************************)
(* src/src/memory/nodes.py                                                 *)
(***************************************************************************)
MemoryType == {"personal_identity", "preference", "factual", "emotional_state"}

Users == {"A", "B"}
MemoryIds == 1..NumIds

Embeddings == {None, Some(<<1, 0>>)}

ContentOf(id) == <<"content", id>>
TagsOf(id) == IF id = 1 THEN <<>> ELSE <<"t1", "t2">>

\* memory_type, timestamp (a datetime, in microseconds) and recency_value (in
\* tenths) of the records that are saved
Profiles ==
    {[memory_type |-> "factual", timestamp |-> 1000, recency_value |-> 10],
     [memory_type |-> "preference", timestamp |-> 2500, recency_value |-> 5],
     [memory_type |-> "emotional_state", timestamp |-> 2500, recency_value |-> 10]}

\* MemoryNode(...) : the records handed to save_memory
MemoryNode(id, user, p, emb, hive) ==
    [memory_id |-> id, user_id |-> user, content |-> ContentOf(id),
     memory_type |-> p.memory_type, timestamp |-> p.timestamp, tags |-> TagsOf(id),
     recency_value |-> p.recency_value, source |-> "conversation", embedding |-> emb,
     conversation_context |-> None, system_prompt_snippet |-> None,
     is_hive_mind |-> hive]

MemoryNodes ==
    {MemoryNode(id, u, p, emb, hive) :
        id \in MemoryIds, u \in Users, p \in Profiles, emb \in Embeddings,
        hive \in BOOLEAN}

(***************************************************************************)
(* MongoDB (pymongo).  A BSON datetime counts milliseconds: the driver     *)
(* drops the microseconds below a millisecond when it encodes a datetime.  *)
(***************************************************************************)
MicrosPerMilli == 1000

BsonDatetime(t) == (t \div MicrosPerMilli) * MicrosPerMilli

\* memory.model_dump() with "_id" added, as the document store keeps it
MemoryDocument(memory) ==
    [_id |-> memory.memory_id,
     memory_id |-> memory.memory_id, user_id |-> memory.user_id,
     content |-> memory.content, memory_type |-> memory.memory_type,
     timestamp |-> BsonDatetime(memory.timestamp), tags |-> memory.tags,
     recency_value |-> memory.recency_value, source |-> memory.source,
     embedding |-> memory.embedding,
     conversation_context |-> memory.conversation_context,
     system_prompt_snippet |-> memory.system_prompt_snippet,
     is_hive_mind |-> memory.is_hive_mind]

\* doc.pop("_id"); MemoryNode(**doc)
DecodeMemory(doc) ==
    [memory_id |-> doc.memory_id, user_id |-> doc.user_id,
     content |-> doc.content, memory_type |-> doc.memory_type,
     timestamp |-> doc.timestamp, tags |-> doc.tags,
     recency_value |-> doc.recency_value, source |-> doc.source,
     embedding |-> doc.embedding,
     conversation_context |-> doc.conversation_context,
     system_prompt_snippet |-> doc.system_prompt_snippet,
     is_hive_mind |-> doc.is_hive_mind]

\* collection.replace_one({"_id": id}, doc, upsert=True)
\* as ReplaceOne, but a document already stored under the id is kept
ReplaceOne_InsertOnly(coll, id, doc) ==
    [k \in DOMAIN coll \cup {id} |-> IF k \in DOMAIN coll THEN coll[k] ELSE doc]

ReplaceOne(coll, id, doc) ==
    [k \in DOMAIN coll \cup {id} |-> IF k = id THEN doc ELSE coll[k]]

(***************************************************************************)
(* MemoryStorage.save_memory                                               *)
(***************************************************************************)
SaveFaults == {"none", "mongo", "chroma"}

\* memory.timestamp.isoformat()
IsoFormat(t) == <<"iso", t>>

\* ChromaMetadata with the tags left out of the projection
ChromaMetadata_WithoutTags(memory) ==
    [user_id |-> memory.user_id,
     memory_type |-> memory.memory_type,
     timestamp |-> IsoFormat(memory.timestamp),
     is_hive_mind |-> Str(memory.is_hive_mind),
     tags |-> <<>>]

\* the metadata of the ChromaDB entry
ChromaMetadata(memory) ==
    [user_id |-> memory.user_id,
     memory_type |-> memory.memory_type,
     timestamp |-> IsoFormat(memory.timestamp),
     is_hive_mind |-> Str(memory.is_hive_mind),
     tags |-> IF Len(memory.tags) > 0 THEN Join(",", memory.tags) ELSE <<>>]

ChromaEntry(memory) ==
    [embedding |-> The(memory.embedding),
     metadata |-> ChromaMetadata(memory),
     document |-> memory.content]

\* `if memory.embedding:` (None and [] are falsy)
HasEmbedding(memory) ==
    memory.embedding # None /\ Len(The(memory.embedding)) > 0

\* The call: the stores it leaves, whether it raised, and what it returned.
\* fault names the backend call that raises, if that call is made.
\* as SaveMemory, but the record is never added to the vector index
SaveMemory_SkipsIndex(mc, cc, memory, fault) ==
    IF fault = "mongo"
    THEN [mc |-> mc, cc |-> cc, raised |-> TRUE, ret |-> None]
    ELSE [mc |-> ReplaceOne(mc, memory.memory_id, MemoryDocument(memory)),
          cc |-> cc, raised |-> FALSE, ret |-> Some(memory.memory_id)]

SaveMemory(mc, cc, memory, fault) ==
    IF fault = "mongo"
    THEN [mc |-> mc, cc |-> cc, raised |-> TRUE, ret |-> None]
    ELSE LET mc2 == ReplaceOne(mc, memory.memory_id, MemoryDocument(memory)) IN
         IF HasEmbedding(memory)
         THEN IF fault = "chroma"
              THEN [mc |-> mc2, cc |-> cc, raised |-> TRUE, ret |-> None]
              ELSE [mc |-> mc2,
                    cc |-> ReplaceOne(cc, memory.memory_id, ChromaEntry(memory)),
                    raised |-> FALSE, ret |-> Some(memory.memory_id)]
         ELSE [mc |-> mc2, cc |-> cc, raised |-> FALSE,
               ret |-> Some(memory.memory_id)]


(***************************************************************************)
(* MemoryStorage.search_memories                                           *)
(***************************************************************************)
DefaultLimit == 3

\* ChromaDB where-clauses
Eq(k, v) == [op |-> "$eq", key |-> k, value |-> v, args |-> <<>>]
And(cs) == [op |-> "$and", key |-> "", value |-> "", args |-> cs]
Or(cs) == [op |-> "$or", key |-> "", value |-> "", args |-> cs]

\* Python truthiness of an Optional[str] and of an Optional[List]
TruthyStr(s) == s # None /\ The(s) # ""
TruthyList(xs) == xs # None /\ Len(The(xs)) > 0

\* storage.py 121-134: the scope part of the where-clause
ScopeWhere(user_id, is_hive_mind) ==
    IF TruthyStr(user_id) /\ ~is_hive_mind
    THEN And(<<Eq("is_hive_mind", Str(is_hive_mind)), Eq("user_id", The(user_id))>>)
    ELSE Eq("is_hive_mind", Str(is_hive_mind))

\* storage.py 136-161: the memory type part, added to the scope part
WhereClause(user_id, is_hive_mind, memory_types) ==
    LET scope == ScopeWhere(user_id, is_hive_mind) IN
    IF ~TruthyList(memory_types) THEN scope
    ELSE LET values == The(memory_types)
             cond == IF Len(values) = 1
                     THEN Eq("memory_type", values[1])
                     ELSE Or([i \in DOMAIN values |-> Eq("memory_type", values[i])])
         IN  IF scope.op = "$and"
             THEN And(Append(scope.args, cond))
             ELSE And(<<scope, cond>>)

\* ChromaDB's evaluation of a where-clause on an entry's metadata
RECURSIVE WhereMatches(_, _)
WhereMatches(metadata, w) ==
    CASE w.op = "$eq" -> metadata[w.key] = w.value
      [] w.op = "$and" -> \A i \in DOMAIN w.args : WhereMatches(metadata, w.args[i])
      [] w.op = "$or" -> \E i \in DOMAIN w.args : WhereMatches(metadata, w.args[i])

Min(a, b) == IF a < b THEN a ELSE b

\* chroma_collection.query(query_embeddings, n_results, where): the ids of the
\* n_results entries nearest to the query among those the filter matches.
\* Which entries are nearest depends on the vectors: any choice is possible.
ChromaQuery(cc, n_results, where) ==
    LET matching == {id \in DOMAIN cc : WhereMatches(cc[id].metadata, where)} IN
    {ids \in SUBSET matching : Cardinality(ids) = Min(n_results, Cardinality(matching))}

\* memories.sort(key=recency_value, reverse=True)
SortedByRecency(ms) ==
    \A i, j \in DOMAIN ms : i < j => ms[i].recency_value >= ms[j].recency_value

\* as Hydrate, but without the sort
Hydrate_Unsorted(mc, ids) ==
    Orderings({DecodeMemory(mc[id]) : id \in ids \cap DOMAIN mc})

\* storage.py 175-194: find({"_id": {"$in": ids}}), decode, sort.  The cursor
\* yields the documents in an order MongoDB chooses; the sort is stable.
Hydrate(mc, ids) ==
    LET nodes == {DecodeMemory(mc[id]) : id \in ids \cap DOMAIN mc} IN
    {ms \in Orderings(nodes) : SortedByRecency(ms)}

\* What raises during a query: nothing, memory_collection.find, the
\* construction MemoryNode(**doc) of a document found, chroma_collection.query
QueryFaults == {"none", "mongo", "decode", "chroma"}

\* The lists the call may return; any exception is caught and gives [].
SearchMemories(mc, cc, user_id, is_hive_mind, limit, memory_types, fault) ==
    IF fault = "chroma" THEN {<<>>}
    ELSE LET where == WhereClause(user_id, is_hive_mind, memory_types) IN
         UNION {IF ids = {} THEN {<<>>}
                ELSE IF fault \in {"mongo", "decode"} THEN {<<>>}
                ELSE Hydrate(mc, ids) : ids \in ChromaQuery(cc, limit, where)}

(***************************************************************************)
(* MemoryStorage.get_recent_memories                                       *)
(***************************************************************************)
\* storage.py 208-210: the MongoDB query document
RecentQuery(user_id, is_hive_mind) ==
    IF TruthyStr(user_id) /\ ~is_hive_mind
    THEN [is_hive_mind |-> is_hive_mind, user_id |-> The(user_id)]
    ELSE [is_hive_mind |-> is_hive_mind]

\* MongoDB's match of a query document of equalities
QueryMatches(doc, query) == \A k \in DOMAIN query : doc[k] = query[k]

\* .sort("timestamp", -1)
SortedByTimestamp(ds) ==
    \A i, j \in DOMAIN ds : i < j => ds[i].timestamp >= ds[j].timestamp

\* as GetRecentMemories, but sorted with the oldest first
GetRecentMemories_Oldest(mc, user_id, is_hive_mind, limit, fault) ==
    IF fault \in {"mongo", "decode"} THEN {<<>>}
    ELSE LET query == RecentQuery(user_id, is_hive_mind)
             docs == {mc[id] : id \in {i \in DOMAIN mc : QueryMatches(mc[i], query)}}
         IN  {[i \in 1..Min(limit, Len(ds)) |-> DecodeMemory(ds[i])] :
                 ds \in {o \in Orderings(docs) :
                            \A i, j \in DOMAIN o : i < j => o[i].timestamp <= o[j].timestamp}}

\* find(query).sort("timestamp", -1).limit(limit), decoded; the vector index
\* is not consulted, so its faults do not reach the call
GetRecentMemories(mc, user_id, is_hive_mind, limit, fault) ==
    IF fault \in {"mongo", "decode"} THEN {<<>>}
    ELSE LET query == RecentQuery(user_id, is_hive_mind)
             docs == {mc[id] : id \in {i \in DOMAIN mc : QueryMatches(mc[i], query)}}
         IN  {[i \in 1..Min(limit, Len(ds)) |-> DecodeMemory(ds[i])] :
                 ds \in {o \in Orderings(docs) : SortedByTimestamp(o)}}

(***************************************************************************)
(* MemoryStorage.get_user_identity / update_user_identity                  *)
(***************************************************************************)
\* UserIdentity(user_id=...): the profile fields default to None, both
\* datetimes to utcnow()
UserIdentity(user_id, t) ==
    [user_id |-> user_id, name |-> None, created_at |-> t, updated_at |-> t]

\* identity.model_dump() with "_id" and the refreshed updated_at, as stored
IdentityDocument(identity, t) ==
    [_id |-> identity.user_id, user_id |-> identity.user_id,
     name |-> identity.name,
     created_at |-> BsonDatetime(identity.created_at),
     updated_at |-> BsonDatetime(t)]

\* identity_doc.pop("_id"); UserIdentity(**identity_doc)
DecodeIdentity(doc) ==
    [user_id |-> doc.user_id, name |-> doc.name,
     created_at |-> doc.created_at, updated_at |-> doc.updated_at]

\* as GetUserIdentity, but the handler returns a new identity of the user
GetUserIdentity_DefaultOnError(ic, user_id, fault) ==
    IF fault THEN Some([user_id |-> user_id, name |-> None,
                        created_at |-> 0, updated_at |-> 0])
    ELSE IF user_id \in DOMAIN ic THEN Some(DecodeIdentity(ic[user_id]))
    ELSE None

\* Optional[UserIdentity]; an exception is caught and gives None
GetUserIdentity(ic, user_id, fault) ==
    IF fault THEN None
    ELSE IF user_id \in DOMAIN ic THEN Some(DecodeIdentity(ic[user_id]))
    ELSE None

\* as UpdateUserIdentity, but the caller's updated_at is stored
UpdateUserIdentity_KeepsSupplied(ic, identity, t, fault) ==
    IF fault THEN [ic |-> ic, ret |-> FALSE]
    ELSE [ic |-> ReplaceOne(ic, identity.user_id,
                            IdentityDocument(identity, identity.updated_at)),
          ret |-> TRUE]

\* the collection it leaves and the bool it returns
UpdateUserIdentity(ic, identity, t, fault) ==
    IF fault THEN [ic |-> ic, ret |-> FALSE]
    ELSE [ic |-> ReplaceOne(ic, identity.user_id, IdentityDocument(identity, t)),
          ret |-> TRUE]

(***************************************************************************)
(* Texts.  A text is a sequence of chunks, each a label and a length in    *)
(* characters; slicing keeps the labels and counts the characters.         *)
(***************************************************************************)
Chunk(s, n) == [s |-> s, n |-> n]

\* text[:k]
RECURSIVE Slice(_, _)
Slice(text, k) ==
    IF Len(text) = 0 \/ k <= 0 THEN <<>>
    ELSE IF Head(text).n <= k
         THEN <<Head(text)>> \o Slice(Tail(text), k - Head(text).n)
         ELSE <<Chunk(Head(text).s, k)>>

RECURSIVE TextLen(_)
TextLen(text) == IF Len(text) = 0 THEN 0 ELSE Head(text).n + TextLen(Tail(text))

(***************************************************************************)
(* MemoryRetriever (src/memory/retrieval.py is not part of the sources):   *)
(* modelled from the specification, section 4.2.                           *)
(***************************************************************************)
EmbedOutcomes == {"ok", "unavailable"}

\* retrieve_personal(owner_id, text): search under Personal(owner_id) with
\* limit 3, or recent(Personal(owner_id), 3) when no embedding is obtained
\* as RetrievePersonalMemories, but without an embedding nothing is retrieved
RetrievePersonalMemories_NoFallback(mc, cc, user_id, embed, fault) ==
    IF embed = "ok"
    THEN SearchMemories(mc, cc, Some(user_id), FALSE, DefaultLimit, None, fault)
    ELSE {<<>>}

RetrievePersonalMemories(mc, cc, user_id, embed, fault) ==
    IF embed = "ok"
    THEN SearchMemories(mc, cc, Some(user_id), FALSE, DefaultLimit, None, fault)
    ELSE GetRecentMemories(mc, Some(user_id), FALSE, DefaultLimit, fault)

\* retrieve_shared(text): the same under the Shared scope
RetrieveHiveMindMemories(mc, cc, embed, fault) ==
    IF embed = "ok"
    THEN SearchMemories(mc, cc, None, TRUE, DefaultLimit, None, fault)
    ELSE GetRecentMemories(mc, None, TRUE, DefaultLimit, fault)

\* get_identity(user_id): passthrough to the Memory Store
RetrieverGetUserIdentity(ic, user_id, fault) == GetUserIdentity(ic, user_id, fault)

(***************************************************************************)
(* PromptBuilder.build_system_prompt (src/src/prompts/templates.py)        *)
(***************************************************************************)
\* len(_build_core_personality()) with an empty "meera" configuration; the
\* configured values only lengthen it
CorePersonalityLen == 1775

BuildSystemPrompt(user_identity, personal_memories, hive_mind_memories, user_query) ==
    <<Chunk("core_personality", CorePersonalityLen),
      Chunk(<<"user_identity", user_identity.user_id>>, 1),
      Chunk(<<"personal_memories", [i \in DOMAIN personal_memories |->
                                       personal_memories[i].memory_id]>>, 1),
      Chunk(<<"hive_mind_memories", [i \in DOMAIN hive_mind_memories |->
                                        hive_mind_memories[i].memory_id]>>, 1)>>

(***************************************************************************)
(* VishnuAgent.process: the BuildContext stage                             *)
(***************************************************************************)
LlmOutcomes == {"ok", "raise"}

\* as DetectIntent, but the handler returns the error's text as the intent
DetectIntent_ReturnsError(cfg, llm) ==
    IF ~cfg.intent_detection THEN None
    ELSE IF llm = "raise" THEN Some("error")
    ELSE Some("intent")

\* vishnu.py 64 and 103-124
DetectIntent(cfg, llm) ==
    IF ~cfg.intent_detection THEN None
    ELSE IF llm = "raise" THEN None
    ELSE Some("intent")

\* vishnu.py 126-134
GetOrCreateIdentity(ic, user_id, t, fault) ==
    LET identity == RetrieverGetUserIdentity(ic, user_id, fault) IN
    IF identity = None THEN UserIdentity(user_id, t) ELSE The(identity)

\* vishnu.py 136-157
UpdateIdentity(cfg, identity, t) ==
    IF ~cfg.identity_update THEN identity
    ELSE [identity EXCEPT !.updated_at = t]

\* What the environment does during one vishnu.process call.
VishnuEnvs ==
    [intent_llm : LlmOutcomes, identity_fault : BOOLEAN,
     personal_embed : EmbedOutcomes, personal_fault : QueryFaults,
     hive_embed : EmbedOutcomes, hive_fault : QueryFaults]

B2N(b) == IF b THEN 1 ELSE 0

\* The number of faults the environment injects into the call.
VishnuFaultCount(env) ==
    B2N(env.intent_llm = "raise") + B2N(env.identity_fault)
    + B2N(env.personal_embed # "ok") + B2N(env.personal_fault # "none")
    + B2N(env.hive_embed # "ok") + B2N(env.hive_fault # "none")

\* A backend the retrieval consults raises: the search consults the vector
\* index and the document store, the fallback the document store only.
RetrievalFailed(embed, fault) ==
    IF embed = "ok" THEN fault # "none" ELSE fault \in {"mongo", "decode"}

\* The environment's faults that the call met.
VishnuFaults(cfg, env) ==
    (IF cfg.intent_detection /\ env.intent_llm = "raise" THEN {"intent"} ELSE {})
    \cup (IF env.identity_fault THEN {"identity_lookup"} ELSE {})
    \cup (IF env.personal_embed # "ok" \/ env.hive_embed # "ok"
          THEN {"embedding"} ELSE {})
    \cup (IF RetrievalFailed(env.personal_embed, env.personal_fault)
          THEN {"personal_retrieval"} ELSE {})
    \cup (IF RetrievalFailed(env.hive_embed, env.hive_fault)
          THEN {"hive_retrieval"} ELSE {})

\* vishnu.py 45-101: the context bundles the call may return
VishnuProcess(mc, cc, ic, cfg, user_id, user_message, t, env) ==
    LET intent == DetectIntent(cfg, env.intent_llm)
        user_identity ==
            UpdateIdentity(cfg, GetOrCreateIdentity(ic, user_id, t, env.identity_fault), t)
    IN  {[system_prompt |-> BuildSystemPrompt(user_identity, pm, hm, user_message),
          user_identity |-> user_identity,
          personal_memories |-> pm,
          hive_mind_memories |-> hm,
          intent |-> intent,
          user_message |-> user_message] :
            pm \in RetrievePersonalMemories(mc, cc, user_id, env.personal_embed,
                                            env.personal_fault),
            hm \in RetrieveHiveMindMemories(mc, cc, env.hive_embed, env.hive_fault)}

(***************************************************************************)
(* BrahmaInterface.generate_response: the Generate stage                   *)
(***************************************************************************)
\* as GenerateResponse, but the handler swallows the exception and hands on
\* an empty response
GenerateResponse_Swallows(system_prompt, user_message, conversation_history, llm, text) ==
    LET reply == IF llm = "raise" THEN "" ELSE text IN
    [raised |-> FALSE,
     response |-> Some(reply),
     full_conversation |->
         Some([system_prompt |-> system_prompt,
               user_message |-> user_message,
               assistant_response |-> reply,
               conversation_history |-> conversation_history])]

\* brahma.py 60-112: the response and the conversation handed on, or the
\* exception of llm.invoke raised again
GenerateResponse(system_prompt, user_message, conversation_history, llm, text) ==
    IF llm = "raise"
    THEN [raised |-> TRUE, response |-> None, full_conversation |-> None]
    ELSE [raised |-> FALSE,
          response |-> Some(text),
          full_conversation |->
              Some([system_prompt |-> system_prompt,
                    user_message |-> user_message,
                    assistant_response |-> text,
                    conversation_history |-> conversation_history])]

(***************************************************************************)
(* ShivaAgent: the UpdateMemory stage                                      *)
(***************************************************************************)
MaxSignals == 2

\* f"User: {user_message}\nAssistant: {assistant_response}"
ExchangeText(conversation) ==
    <<"User: ", conversation.user_message, "\nAssistant: ",
      conversation.assistant_response>>

\* The user messages of the model and len(user_message).
Messages == {"hello", "long message"}
MessageLen(m) == IF m = "long message" THEN 150 ELSE 5

\* user_message[:100] (shiva.py 188)
MessagePrefix(m) == IF MessageLen(m) <= 100 THEN m ELSE m \o "[:100]"

\* One element of the JSON array in the classifier's response.
Item(content, memory_type) ==
    [is_dict |-> TRUE, has_content |-> TRUE, content_is_str |-> TRUE,
     content |-> content, has_type |-> TRUE, memory_type |-> memory_type,
     tags_is_list |-> TRUE, tags |-> <<"t1">>]

\* The classifier's responses: the call raises, the text holds no [...],
\* the bracketed text is not JSON, or it is a JSON array.
Reply(kind, items) == [kind |-> kind, items |-> items]

ExtractionReplies ==
    {Reply("raise", <<>>), Reply("no_array", <<>>), Reply("bad_json", <<>>),
     Reply("array", <<Item(<<"summary1">>, "personal_identity"),
                      Item(<<"summary2">>, "unknown_type")>>),
     Reply("array", <<[Item(<<"42">>, "factual") EXCEPT !.content_is_str = FALSE],
                      Item(<<"summary2">>, "factual")>>)}

\* shiva.py 171-179: one validated signal
ValidatedSignal(item) ==
    [content |-> item.content, content_is_str |-> item.content_is_str,
     memory_type |-> IF item.has_type THEN item.memory_type ELSE "factual",
     tags |-> IF item.tags_is_list THEN item.tags ELSE <<>>]

RawSignal(content) ==
    [content |-> content, content_is_str |-> TRUE, memory_type |-> "factual",
     tags |-> <<>>]

\* as ExtractMemorySignals, but the classifier is consulted also when it is
\* disabled
ExtractMemorySignals_AlwaysClassifies(cfg, conversation, reply) ==
    IF reply.kind = "raise"
    THEN <<RawSignal(<<"Conversation about: ",
                       MessagePrefix(conversation.user_message)>>)>>
    ELSE IF reply.kind \in {"no_array", "bad_json"} THEN <<>>
    ELSE LET kept == SelectSeq(reply.items,
                               LAMBDA it : it.is_dict /\ it.has_content)
         IN  [i \in DOMAIN kept |-> ValidatedSignal(kept[i])]

\* shiva.py 106-191
ExtractMemorySignals(cfg, conversation, reply) ==
    IF ~cfg.extraction_enabled
    THEN <<RawSignal(ExchangeText(conversation))>>
    ELSE IF reply.kind = "raise"
    THEN <<RawSignal(<<"Conversation about: ",
                       MessagePrefix(conversation.user_message)>>)>>
    ELSE IF reply.kind \in {"no_array", "bad_json"} THEN <<>>
    ELSE LET kept == SelectSeq(reply.items,
                               LAMBDA it : it.is_dict /\ it.has_content)
         IN  [i \in DOMAIN kept |-> ValidatedSignal(kept[i])]

\* characters kept of the system prompt (shiva.py 228)
SnippetLimit == 500

\* as CreateMemoryNode, but the whole system prompt is kept as the snippet
CreateMemoryNode_WholePrompt(cfg, user_id, signal, conversation, uuid, t, embed) ==
    IF ~signal.content_is_str THEN None
    ELSE Some(
        [memory_id |-> uuid, user_id |-> user_id, content |-> signal.content,
         memory_type |-> IF signal.memory_type \in MemoryType
                         THEN signal.memory_type ELSE "factual",
         timestamp |-> t, tags |-> signal.tags, recency_value |-> 10,
         source |-> "conversation",
         embedding |-> IF cfg.embedding_enabled /\ embed = "ok"
                       THEN Some(<<1, 0>>) ELSE None,
         conversation_context |-> Some(ExchangeText(conversation)),
         system_prompt_snippet |-> Some(conversation.system_prompt),
         is_hive_mind |-> FALSE])

\* as CreateMemoryNode, but the signal's memory_type is kept as it is
CreateMemoryNode_KeepsType(cfg, user_id, signal, conversation, uuid, t, embed) ==
    IF ~signal.content_is_str THEN None
    ELSE Some(
        [memory_id |-> uuid, user_id |-> user_id, content |-> signal.content,
         memory_type |-> signal.memory_type,
         timestamp |-> t, tags |-> signal.tags, recency_value |-> 10,
         source |-> "conversation",
         embedding |-> IF cfg.embedding_enabled /\ embed = "ok"
                       THEN Some(<<1, 0>>) ELSE None,
         conversation_context |-> Some(ExchangeText(conversation)),
         system_prompt_snippet |-> Some(Slice(conversation.system_prompt, SnippetLimit)),
         is_hive_mind |-> FALSE])

\* shiva.py 193-236: the node, or None when its construction raises
CreateMemoryNode(cfg, user_id, signal, conversation, uuid, t, embed) ==
    IF ~signal.content_is_str THEN None
    ELSE Some(
        [memory_id |-> uuid, user_id |-> user_id, content |-> signal.content,
         memory_type |-> IF signal.memory_type \in MemoryType
                         THEN signal.memory_type ELSE "factual",
         timestamp |-> t, tags |-> signal.tags, recency_value |-> 10,
         source |-> "conversation",
         embedding |-> IF cfg.embedding_enabled /\ embed = "ok"
                       THEN Some(<<1, 0>>) ELSE None,
         conversation_context |-> Some(ExchangeText(conversation)),
         system_prompt_snippet |-> Some(Slice(conversation.system_prompt, SnippetLimit)),
         is_hive_mind |-> FALSE])

\* What the environment does during one shiva.process call: the classifier's
\* response, and for the i-th signal the embedding call and the save.
ShivaEnvs ==
    [extraction : ExtractionReplies,
     embed : [1..MaxSignals -> LlmOutcomes],
     save_fault : [1..MaxSignals -> SaveFaults],
     identity_fault : BOOLEAN]

\* The number of faults the environment injects into the call.
ShivaFaultCount(env) ==
    B2N(env.extraction.kind # "array") + B2N(env.identity_fault)
    + Cardinality({i \in 1..MaxSignals : env.embed[i] = "raise"})
    + Cardinality({i \in 1..MaxSignals : env.save_fault[i] # "none"})

\* shiva.py 79-90: the loop over the signals from the i-th on; it stops at the
\* first save_memory that raises
RECURSIVE SaveSignals(_, _, _)
SaveSignals(call, i, st0) ==
    Bind({st0}, LAMBDA st :
        IF i > Len(call.signals) \/ st.raised THEN st
        ELSE Bind({CreateMemoryNode(call.cfg, call.user_id, call.signals[i],
                                    call.conversation, st.uuid, call.t,
                                    call.env.embed[i])}, LAMBDA node :
            IF node = None
            THEN SaveSignals(call, i + 1,
                             [st EXCEPT !.faults = @ \cup {"create_node"}])
            ELSE Bind({SaveMemory(st.mc, st.cc, The(node), call.env.save_fault[i])},
                      LAMBDA r :
                SaveSignals(call, i + 1,
                    [mc |-> r.mc, cc |-> r.cc,
                     memory_ids |-> IF r.raised THEN st.memory_ids
                                    ELSE Append(st.memory_ids, The(r.ret)),
                     uuid |-> st.uuid + 1,
                     raised |-> r.raised,
                     faults |-> st.faults
                                \cup (IF call.cfg.embedding_enabled
                                         /\ call.env.embed[i] = "raise"
                                      THEN {"embedding"} ELSE {})
                                \cup (IF r.raised THEN {"save"} ELSE {}),
                     log |-> Append(st.log, "save_memory")]))))

\* the state of the loop of shiva.py 79-90 before its first signal
ExtractedSignals(mc, cc, cfg, conversation, uuid, t, user_id, env) ==
    Bind({ExtractMemorySignals(cfg, conversation, env.extraction)}, LAMBDA signals :
        SaveSignals([cfg |-> cfg, user_id |-> user_id, signals |-> signals,
                     conversation |-> conversation, t |-> t, env |-> env],
                    1,
                    [mc |-> mc, cc |-> cc, memory_ids |-> <<>>, uuid |-> uuid,
                     raised |-> FALSE,
                     faults |-> IF cfg.extraction_enabled
                                   /\ env.extraction.kind # "array"
                                THEN {"extraction"} ELSE {},
                     log |-> <<"extract">>]))

\* as ShivaProcess, but the handler returns the ids collected before the
\* exception
ShivaProcess_KeepsIds(mc, cc, ic, cfg, user_id, conversation, user_identity, uuid, t, env) ==
    Bind({ExtractedSignals(mc, cc, cfg, conversation, uuid, t, user_id, env)},
         LAMBDA st :
        IF st.raised
        THEN [mc |-> st.mc, cc |-> st.cc, ic |-> ic, memory_ids |-> st.memory_ids,
              raised |-> FALSE,
              uuid |-> st.uuid, faults |-> st.faults, log |-> st.log]
        ELSE Bind({UpdateUserIdentity(ic, user_identity, t, env.identity_fault)},
                  LAMBDA u :
            [mc |-> st.mc, cc |-> st.cc, ic |-> u.ic,
             memory_ids |-> st.memory_ids, raised |-> FALSE,
             uuid |-> st.uuid,
             faults |-> st.faults \cup (IF u.ret THEN {} ELSE {"identity_update"}),
             log |-> Append(st.log, "update_user_identity")]))

\* as ShivaProcess, but without the handler: the exception of save_memory
\* leaves the call
ShivaProcess_Propagates(mc, cc, ic, cfg, user_id, conversation, user_identity, uuid, t, env) ==
    Bind({ExtractedSignals(mc, cc, cfg, conversation, uuid, t, user_id, env)},
         LAMBDA st :
        IF st.raised
        THEN [mc |-> st.mc, cc |-> st.cc, ic |-> ic, memory_ids |-> <<>>,
              raised |-> TRUE,
              uuid |-> st.uuid, faults |-> st.faults, log |-> st.log]
        ELSE Bind({UpdateUserIdentity(ic, user_identity, t, env.identity_fault)},
                  LAMBDA u :
            [mc |-> st.mc, cc |-> st.cc, ic |-> u.ic,
             memory_ids |-> st.memory_ids, raised |-> FALSE,
             uuid |-> st.uuid,
             faults |-> st.faults \cup (IF u.ret THEN {} ELSE {"identity_update"}),
             log |-> Append(st.log, "update_user_identity")]))

\* shiva.py 53-104: the stores the call leaves and the ids it returns
ShivaProcess(mc, cc, ic, cfg, user_id, conversation, user_identity, uuid, t, env) ==
    Bind({ExtractedSignals(mc, cc, cfg, conversation, uuid, t, user_id, env)},
         LAMBDA st :
        IF st.raised
        THEN [mc |-> st.mc, cc |-> st.cc, ic |-> ic, memory_ids |-> <<>>,
              raised |-> FALSE,
              uuid |-> st.uuid, faults |-> st.faults, log |-> st.log]
        ELSE Bind({UpdateUserIdentity(ic, user_identity, t, env.identity_fault)},
                  LAMBDA u :
            [mc |-> st.mc, cc |-> st.cc, ic |-> u.ic,
             memory_ids |-> st.memory_ids, raised |-> FALSE,
             uuid |-> st.uuid,
             faults |-> st.faults \cup (IF u.ret THEN {} ELSE {"identity_update"}),
             log |-> Append(st.log, "update_user_identity")]))

(***************************************************************************)
(* The calls on MemoryStorage as actions.                                  *)
(***************************************************************************)
NoCall ==
    [op |-> "none", memory |-> None, user_id |-> None, is_hive_mind |-> FALSE,
     limit |-> 0, memory_types |-> None, fault |-> "none",
     where |-> And(<<>>), query |-> [is_hive_mind |-> FALSE],
     raised |-> FALSE, ret_id |-> None, ret |-> <<>>,
     identity |-> None, ret_identity |-> None, ret_ok |-> FALSE]

UserIdArgs == {None, Some(""), Some("A"), Some("B")}
Limits == {1, DefaultLimit}
MemoryTypeArgs ==
    {None, Some(<<"preference">>), Some(<<"factual", "preference">>)}

save_memory(memory, fault) ==
    /\ writes < MaxWrites
    /\ LET r == SaveMemory(memory_collection, chroma_collection, memory, fault) IN
       /\ memory_collection' = r.mc
       /\ chroma_collection' = r.cc
       /\ last' = [NoCall EXCEPT !.op = "save_memory", !.memory = Some(memory),
                                 !.fault = fault, !.raised = r.raised,
                                 !.ret_id = r.ret]
    /\ writes' = writes + 1
    /\ reads' = 0
    /\ UNCHANGED <<agent_call, saves, identity_collection, pipeline_vars>>

search_memories(user_id, is_hive_mind, limit, memory_types, fault) ==
    /\ reads < MaxReads
    /\ reads' = reads + 1
    /\ \E ms \in SearchMemories(memory_collection, chroma_collection, user_id,
                                is_hive_mind, limit, memory_types, fault) :
          last' = [NoCall EXCEPT !.op = "search_memories", !.user_id = user_id,
                                 !.is_hive_mind = is_hive_mind, !.limit = limit,
                                 !.memory_types = memory_types, !.fault = fault,
                                 !.where = WhereClause(user_id, is_hive_mind,
                                                       memory_types),
                                 !.ret = ms]
    /\ UNCHANGED <<agent_call, saves, store_vars, writes, pipeline_vars>>

get_recent_memories(user_id, is_hive_mind, limit, fault) ==
    /\ reads < MaxReads
    /\ reads' = reads + 1
    /\ \E ms \in GetRecentMemories(memory_collection, user_id, is_hive_mind,
                                   limit, fault) :
          last' = [NoCall EXCEPT !.op = "get_recent_memories", !.user_id = user_id,
                                 !.is_hive_mind = is_hive_mind, !.limit = limit,
                                 !.fault = fault,
                                 !.query = RecentQuery(user_id, is_hive_mind),
                                 !.ret = ms]
    /\ UNCHANGED <<agent_call, saves, store_vars, writes, pipeline_vars>>

\* The identities handed to update_user_identity: the caller's updated_at is
\* the time of construction or any later one.
Identities ==
    [user_id : Users, name : {None, Some("Asha")}, created_at : {1500},
     updated_at : {1500, 9900}]

IdentityFaults == {"none", "mongo"}

\* as get_user_identity, but an identity that is not found is created
get_user_identity_Creates(user_id, fault) ==
    /\ reads < MaxReads
    /\ reads' = reads + 1
    /\ last' = [NoCall EXCEPT !.op = "get_user_identity", !.user_id = Some(user_id),
                              !.fault = fault,
                              !.ret_identity =
                                  GetUserIdentity(identity_collection, user_id,
                                                  fault # "none")]
    /\ identity_collection' =
          IF fault = "none" /\ user_id \notin DOMAIN identity_collection
          THEN ReplaceOne(identity_collection, user_id,
                          IdentityDocument(UserIdentity(user_id, now), now))
          ELSE identity_collection
    /\ UNCHANGED <<agent_call, saves, memory_collection, chroma_collection, writes, pipeline_vars>>

get_user_identity(user_id, fault) ==
    /\ reads < MaxReads
    /\ reads' = reads + 1
    /\ last' = [NoCall EXCEPT !.op = "get_user_identity", !.user_id = Some(user_id),
                              !.fault = fault,
                              !.ret_identity =
                                  GetUserIdentity(identity_collection, user_id,
                                                  fault # "none")]
    /\ UNCHANGED <<agent_call, saves, store_vars, writes, pipeline_vars>>

update_user_identity(identity, fault) ==
    /\ writes < MaxWrites
    /\ writes' = writes + 1
    /\ reads' = 0
    /\ now' = now + 500
    /\ LET u == UpdateUserIdentity(identity_collection, identity, now', fault # "none") IN
       /\ identity_collection' = u.ic
       /\ last' = [NoCall EXCEPT !.op = "update_user_identity",
                                 !.user_id = Some(identity.user_id),
                                 !.identity = Some(identity), !.fault = fault,
                                 !.ret_ok = u.ret]
    /\ UNCHANGED <<agent_call, saves, memory_collection, chroma_collection, config, req, next_uuid,
                   injected>>

vars ==
    <<memory_collection, identity_collection, chroma_collection, last, writes, reads,
      config, req, now, next_uuid, injected, saves, agent_call>>

EmptyCollection == [k \in {} |-> {}]

\* config.yaml read with its defaults (vishnu.py 41, 143; shiva.py 41, 47)
DefaultConfig ==
    [intent_detection |-> TRUE, identity_update |-> TRUE,
     extraction_enabled |-> TRUE, embedding_enabled |-> TRUE]

Configs ==
    {c \in [intent_detection : BOOLEAN, identity_update : BOOLEAN,
            extraction_enabled : BOOLEAN, embedding_enabled : BOOLEAN] :
        Cardinality({f \in DOMAIN c : ~c[f]}) <= MaxDisabled}

Requests == 1..NumRequests

NoRequest ==
    [pc |-> "Start", user_id |-> "", user_message |-> "", context |-> None,
     response |-> None, full_conversation |-> None, memory_ids |-> <<>>,
     status |-> 0, faults |-> {}, log |-> <<>>]

NumSavers == 2
Savers == 1..NumSavers

\* a caller of save_memory: the step it is at, its argument, and when it wrote
NoSave ==
    [pc |-> "idle", memory |-> None, fault |-> "none", mongo_at |-> 0, chroma_at |-> 0]

\* no agent method has been called yet
NoAgentCall ==
    [op |-> "none", user_id |-> "", conversation |-> None, reply |-> None,
     signals |-> <<>>, llm_calls |-> 0, raised |-> FALSE, index |-> 0,
     embed |-> "ok", node |-> None, content |-> <<>>, memory_type |-> "factual",
     tags |-> None, fault |-> "none", new_ids |-> {}, ret_id |-> None,
     conversation_history |-> None, llm |-> "ok", messages |-> <<>>]

InitStores ==
    /\ memory_collection = EmptyCollection
    /\ identity_collection = EmptyCollection
    /\ chroma_collection = EmptyCollection
    /\ last = NoCall
    /\ writes = 0
    /\ reads = 0
    /\ req = [r \in Requests |-> NoRequest]
    /\ now = 1500
    /\ next_uuid = 1
    /\ injected = 0
    /\ saves = [p \in Savers |-> NoSave]
    /\ agent_call = NoAgentCall

Init ==
    /\ InitStores
    /\ config = DefaultConfig

Next ==
    \/ \E memory \in MemoryNodes, fault \in SaveFaults : save_memory(memory, fault)
    \/ \E user_id \in UserIdArgs, is_hive_mind \in BOOLEAN, limit \in Limits,
          memory_types \in MemoryTypeArgs, fault \in QueryFaults :
          search_memories(user_id, is_hive_mind, limit, memory_types, fault)
    \/ \E user_id \in UserIdArgs, is_hive_mind \in BOOLEAN, limit \in Limits,
          fault \in QueryFaults \ {"chroma"} :
          get_recent_memories(user_id, is_hive_mind, limit, fault)
    \/ \E user_id \in Users, fault \in IdentityFaults :
          get_user_identity(user_id, fault)
    \/ \E identity \in Identities, fault \in IdentityFaults :
          update_user_identity(identity, fault)

Spec == Init /\ [][Next]_vars

(***************************************************************************)
(* Concurrent save_memory calls (storage.py 42-76).  The method holds no   *)
(* lock; each backend call (replace_one, upsert) is one atomic request to   *)
(* its backend, and the calls of different callers interleave freely.      *)
(***************************************************************************)
\* the number of backend writes made so far, by all callers
Clock ==
    LET at == {saves[p].mongo_at : p \in Savers} \cup {saves[p].chroma_at : p \in Savers}
    IN  CHOOSE m \in at : \A x \in at : x <= m

\* storage.py 42-47: a caller enters save_memory(memory)
call_save_memory(p, memory) ==
    /\ saves[p].pc = "idle"
    /\ saves' = [saves EXCEPT ![p] = [NoSave EXCEPT !.pc = "replace_one",
                                                   !.memory = Some(memory)]]
    /\ UNCHANGED <<agent_call, store_vars, call_vars, pipeline_vars>>

\* as replace_one, but after a failed document write the save goes on
replace_one_GoesOn(p, fault) ==
    /\ saves[p].pc = "replace_one"
    /\ LET memory == The(saves[p].memory) IN
       IF fault
       THEN /\ saves' = [saves EXCEPT
                           ![p].pc = IF HasEmbedding(memory) THEN "upsert"
                                     ELSE "raised",
                           ![p].fault = "mongo"]
            /\ UNCHANGED memory_collection
       ELSE /\ memory_collection' = ReplaceOne(memory_collection, memory.memory_id,
                                               MemoryDocument(memory))
            /\ saves' = [saves EXCEPT
                           ![p].pc = IF HasEmbedding(memory) THEN "upsert"
                                     ELSE "returned",
                           ![p].mongo_at = Clock + 1]
    /\ UNCHANGED <<agent_call, identity_collection, chroma_collection, call_vars, pipeline_vars>>

\* storage.py 49-53, 55, 71-76: memory_collection.replace_one(..., upsert=True)
replace_one(p, fault) ==
    /\ saves[p].pc = "replace_one"
    /\ LET memory == The(saves[p].memory) IN
       IF fault
       THEN /\ saves' = [saves EXCEPT ![p].pc = "raised", ![p].fault = "mongo"]
            /\ UNCHANGED memory_collection
       ELSE /\ memory_collection' = ReplaceOne(memory_collection, memory.memory_id,
                                               MemoryDocument(memory))
            /\ saves' = [saves EXCEPT
                           ![p].pc = IF HasEmbedding(memory) THEN "upsert"
                                     ELSE "returned",
                           ![p].mongo_at = Clock + 1]
    /\ UNCHANGED <<agent_call, identity_collection, chroma_collection, call_vars, pipeline_vars>>

\* storage.py 56-76: chroma_collection.upsert(...)
upsert(p, fault) ==
    /\ saves[p].pc = "upsert"
    /\ LET memory == The(saves[p].memory) IN
       IF fault
       THEN /\ saves' = [saves EXCEPT ![p].pc = "raised", ![p].fault = "chroma"]
            /\ UNCHANGED chroma_collection
       ELSE /\ chroma_collection' = ReplaceOne(chroma_collection, memory.memory_id,
                                               ChromaEntry(memory))
            /\ saves' = [saves EXCEPT ![p].pc = "returned",
                                      ![p].chroma_at = Clock + 1]
    /\ UNCHANGED <<agent_call, memory_collection, identity_collection, call_vars, pipeline_vars>>

NextConcurrentSaves ==
    \/ \E p \in Savers, memory \in MemoryNodes : call_save_memory(p, memory)
    \/ \E p \in Savers, fault \in BOOLEAN : replace_one(p, fault)
    \/ \E p \in Savers, fault \in BOOLEAN : upsert(p, fault)

SpecConcurrentSaves == Init /\ [][NextConcurrentSaves]_vars

(***************************************************************************)
(* The methods of ShivaAgent called one by one (shiva.py 106-275): the     *)
(* extraction of the signals, the node of one signal, its save, and        *)
(* create_hive_mind_memory, with the queries of the store in between.      *)
(***************************************************************************)
\* the elements a parsed JSON array can hold: content present or missing,
\* empty, or not a string; type valid, unknown or missing; tags a list or not
ParsedItems ==
    {Item(<<"summary1">>, "preference"),
     Item(<<"summary1">>, "unknown_type"),
     [Item(<<"summary1">>, "factual") EXCEPT !.has_type = FALSE],
     [Item(<<"summary1">>, "emotional_state") EXCEPT !.tags_is_list = FALSE],
     Item(<<>>, "factual"),
     [Item(<<>>, "factual") EXCEPT !.has_content = FALSE],
     [Item(<<"42">>, "factual") EXCEPT !.content_is_str = FALSE],
     [Item(<<>>, "factual") EXCEPT !.is_dict = FALSE, !.has_content = FALSE]}

\* the classifier's responses handed to _extract_memory_signals
ParsedReplies ==
    {Reply("raise", <<>>), Reply("no_array", <<>>), Reply("bad_json", <<>>),
     Reply("array", <<>>)}
    \cup {Reply("array", <<a>>) : a \in ParsedItems}
    \cup {Reply("array", <<a, b>>) : a \in ParsedItems, b \in ParsedItems}

\* the conversations Brahma hands to Shiva
Conversations ==
    {[system_prompt |-> BuildSystemPrompt(UserIdentity("A", 1500), <<>>, <<>>, m),
      user_message |-> m, assistant_response |-> "reply1",
      conversation_history |-> <<>>] : m \in Messages}

\* shiva.py 112-152: the requests _extract_memory_signals makes to the classifier
ExtractionCalls(cfg) == IF cfg.extraction_enabled THEN 1 ELSE 0

\* the tags create_hive_mind_memory is called with: tags or []
TagArgs == {None, Some(<<"t1", "t2">>)}

\* as CreateHiveMindMemory, but the record is stored as a personal one
CreateHiveMindMemory_Personal(mc, cc, cfg, user_id, content, memory_type, tags, uuid, t, embed, fault) ==
    IF cfg.embedding_enabled /\ embed = "raise"
    THEN [mc |-> mc, cc |-> cc, ret |-> None, node |-> None]
    ELSE LET node ==
                 [memory_id |-> uuid, user_id |-> user_id, content |-> content,
                  memory_type |-> memory_type, timestamp |-> t,
                  tags |-> IF tags = None THEN <<>> ELSE The(tags),
                  recency_value |-> 10, source |-> "hive_mind",
                  embedding |-> IF cfg.embedding_enabled THEN Some(<<1, 0>>) ELSE None,
                  conversation_context |-> None, system_prompt_snippet |-> None,
                  is_hive_mind |-> FALSE]
         IN  Bind({SaveMemory(mc, cc, node, fault)}, LAMBDA r :
                 [mc |-> r.mc, cc |-> r.cc,
                  ret |-> IF r.raised THEN None ELSE r.ret, node |-> Some(node)])

\* shiva.py 238-275: the stores create_hive_mind_memory leaves, the id it
\* returns (None when anything raised) and the node it built
CreateHiveMindMemory(mc, cc, cfg, user_id, content, memory_type, tags, uuid, t, embed, fault) ==
    IF cfg.embedding_enabled /\ embed = "raise"
    THEN [mc |-> mc, cc |-> cc, ret |-> None, node |-> None]
    ELSE LET node ==
                 [memory_id |-> uuid, user_id |-> user_id, content |-> content,
                  memory_type |-> memory_type, timestamp |-> t,
                  tags |-> IF tags = None THEN <<>> ELSE The(tags),
                  recency_value |-> 10, source |-> "hive_mind",
                  embedding |-> IF cfg.embedding_enabled THEN Some(<<1, 0>>) ELSE None,
                  conversation_context |-> None, system_prompt_snippet |-> None,
                  is_hive_mind |-> TRUE]
         IN  Bind({SaveMemory(mc, cc, node, fault)}, LAMBDA r :
                 [mc |-> r.mc, cc |-> r.cc,
                  ret |-> IF r.raised THEN None ELSE r.ret, node |-> Some(node)])

\* shiva.py 74-77, 106-191: process asks for the signals of the conversation
extract_memory_signals(conversation, reply) ==
    /\ agent_call.op = "none"
    /\ agent_call' =
          [NoAgentCall EXCEPT
              !.op = "_extract_memory_signals",
              !.conversation = Some(conversation),
              !.reply = Some(reply),
              !.signals = ExtractMemorySignals(config, conversation, reply),
              !.llm_calls = ExtractionCalls(config)]
    /\ UNCHANGED <<store_vars, call_vars, pipeline_vars, saves>>

\* shiva.py 81-86, 193-236: the node of the next signal
create_memory_node(user_id, embed) ==
    /\ agent_call.op \in {"_extract_memory_signals", "_create_memory_node", "save_memory"}
    /\ agent_call.op = "_create_memory_node" => agent_call.node = None
    /\ agent_call.index < Len(agent_call.signals)
    /\ agent_call.index > 0 => user_id = agent_call.user_id
    /\ agent_call' =
          [agent_call EXCEPT
              !.op = "_create_memory_node",
              !.user_id = user_id,
              !.index = @ + 1,
              !.embed = embed,
              !.node = CreateMemoryNode(config, user_id,
                                        agent_call.signals[agent_call.index + 1],
                                        The(agent_call.conversation),
                                        next_uuid, now, embed)]
    /\ UNCHANGED <<store_vars, call_vars, pipeline_vars, saves>>

\* shiva.py 88-90: the node is saved
save_created_node(fault) ==
    /\ agent_call.op = "_create_memory_node"
    /\ agent_call.node # None
    /\ writes < MaxWrites
    /\ \E r \in {SaveMemory(memory_collection, chroma_collection,
                            The(agent_call.node), fault)} :
          /\ memory_collection' = r.mc
          /\ chroma_collection' = r.cc
          /\ agent_call' = [agent_call EXCEPT !.op = "save_memory", !.fault = fault,
                                              !.ret_id = r.ret]
          /\ last' = [NoCall EXCEPT !.op = "save_memory", !.memory = agent_call.node,
                                    !.fault = fault, !.raised = r.raised,
                                    !.ret_id = r.ret]
    /\ writes' = writes + 1
    /\ reads' = 0
    /\ next_uuid' = next_uuid + 1
    /\ UNCHANGED <<identity_collection, config, req, now, injected, saves>>

\* shiva.py 238-275
create_hive_mind_memory(user_id, content, memory_type, tags, embed, fault) ==
    /\ agent_call.op \in {"none", "save_memory", "create_hive_mind_memory"}
    /\ writes < MaxWrites
    /\ \E r \in {CreateHiveMindMemory(memory_collection, chroma_collection, config,
                                      user_id, content, memory_type, tags,
                                      next_uuid, now, embed, fault)} :
          /\ memory_collection' = r.mc
          /\ chroma_collection' = r.cc
          /\ agent_call' =
                [NoAgentCall EXCEPT
                    !.op = "create_hive_mind_memory", !.user_id = user_id,
                    !.content = content, !.memory_type = memory_type,
                    !.tags = tags, !.embed = embed, !.fault = fault,
                    !.node = r.node, !.ret_id = r.ret,
                    !.new_ids = DOMAIN r.mc \ DOMAIN memory_collection]
          /\ last' = IF r.node = None THEN last
                     ELSE [NoCall EXCEPT !.op = "save_memory", !.memory = r.node,
                                         !.fault = fault, !.raised = r.ret = None,
                                         !.ret_id = r.ret]
    /\ writes' = writes + 1
    /\ reads' = 0
    /\ next_uuid' = next_uuid + 1
    /\ UNCHANGED <<identity_collection, config, req, now, injected, saves>>

InitShiva ==
    /\ InitStores
    /\ config \in Configs

NextShiva ==
    \/ \E conversation \in Conversations, reply \in ParsedReplies :
          extract_memory_signals(conversation, reply)
    \/ \E user_id \in Users, embed \in LlmOutcomes : create_memory_node(user_id, embed)
    \/ \E fault \in SaveFaults : save_created_node(fault)
    \/ \E user_id \in Users, content \in {<<"insight">>},
          memory_type \in {"factual", "preference"},
          tags \in TagArgs, embed \in LlmOutcomes, fault \in SaveFaults :
          create_hive_mind_memory(user_id, content, memory_type, tags, embed, fault)
    \/ /\ agent_call.op = "create_hive_mind_memory"
       /\ \E user_id \in UserIdArgs, is_hive_mind \in BOOLEAN :
             search_memories(user_id, is_hive_mind, DefaultLimit, None, "none")
    \/ /\ agent_call.op = "create_hive_mind_memory"
       /\ \E user_id \in UserIdArgs, is_hive_mind \in BOOLEAN :
             get_recent_memories(user_id, is_hive_mind, DefaultLimit, "none")

SpecShiva == InitShiva /\ [][NextShiva]_vars

(***************************************************************************)
(* Retrieval from a store that holds up to MaxStored records               *)
(* (vishnu.py 70-78 through the retriever, storage.py 109-224).            *)
(***************************************************************************)
MaxStored == 4

\* what the store holds under an id: nothing, a personal record of user A
\* with or without an embedding, or a shared record
SeedKinds == {"absent", "personal", "personal_no_embedding", "shared"}

SeedProfile(id) ==
    CHOOSE p \in Profiles :
        p.memory_type = IF id % 3 = 0 THEN "factual"
                        ELSE IF id % 3 = 1 THEN "preference" ELSE "emotional_state"

SeedRecord(id, kind) ==
    MemoryNode(id, IF kind = "shared" THEN "B" ELSE "A", SeedProfile(id),
               IF kind = "personal_no_embedding" THEN None ELSE Some(<<1, 0>>),
               kind = "shared")

\* the stores after save_memory of the records of the ids from id on
RECURSIVE SeedStores(_, _, _)
SeedStores(kinds, id, st) ==
    IF id > MaxStored THEN st
    ELSE IF kinds[id] = "absent" THEN SeedStores(kinds, id + 1, st)
    ELSE Bind({SaveMemory(st.mc, st.cc, SeedRecord(id, kinds[id]), "none")},
              LAMBDA r : SeedStores(kinds, id + 1, [mc |-> r.mc, cc |-> r.cc]))

\* vishnu.py 71-74: retrieve_personal_memories(user_id, query)
retrieve_personal_memories(user_id, embed, fault) ==
    /\ reads < MaxReads
    /\ reads' = reads + 1
    /\ \E ms \in RetrievePersonalMemories(memory_collection, chroma_collection,
                                          user_id, embed, fault) :
          last' = [NoCall EXCEPT !.op = "retrieve_personal_memories",
                                 !.user_id = Some(user_id), !.is_hive_mind = FALSE,
                                 !.limit = DefaultLimit, !.fault = fault, !.ret = ms]
    /\ agent_call' = [NoAgentCall EXCEPT !.op = "retrieve_personal_memories",
                                        !.user_id = user_id, !.embed = embed]
    /\ UNCHANGED <<saves, store_vars, writes, pipeline_vars>>

\* vishnu.py 76-78: retrieve_hive_mind_memories(query)
retrieve_hive_mind_memories(embed, fault) ==
    /\ reads < MaxReads
    /\ reads' = reads + 1
    /\ \E ms \in RetrieveHiveMindMemories(memory_collection, chroma_collection,
                                          embed, fault) :
          last' = [NoCall EXCEPT !.op = "retrieve_hive_mind_memories",
                                 !.is_hive_mind = TRUE,
                                 !.limit = DefaultLimit, !.fault = fault, !.ret = ms]
    /\ agent_call' = [NoAgentCall EXCEPT !.op = "retrieve_hive_mind_memories",
                                        !.embed = embed]
    /\ UNCHANGED <<saves, store_vars, writes, pipeline_vars>>

InitRetrieve ==
    /\ \E kinds \in [1..MaxStored -> SeedKinds] :
          \E st \in {SeedStores(kinds, 1, [mc |-> EmptyCollection,
                                           cc |-> EmptyCollection])} :
              /\ memory_collection = st.mc
              /\ chroma_collection = st.cc
    /\ identity_collection = EmptyCollection
    /\ last = NoCall
    /\ writes = 0
    /\ reads = 0
    /\ config = DefaultConfig
    /\ req = [r \in Requests |-> NoRequest]
    /\ now = 1500
    /\ next_uuid = MaxStored + 1
    /\ injected = 0
    /\ saves = [p \in Savers |-> NoSave]
    /\ agent_call = NoAgentCall

NextRetrieve ==
    \/ \E user_id \in Users, embed \in EmbedOutcomes, fault \in QueryFaults :
          retrieve_personal_memories(user_id, embed, fault)
    \/ \E embed \in EmbedOutcomes, fault \in QueryFaults :
          retrieve_hive_mind_memories(embed, fault)
    \/ \E user_id \in UserIdArgs, is_hive_mind \in BOOLEAN, limit \in Limits,
          memory_types \in MemoryTypeArgs, fault \in QueryFaults :
          search_memories(user_id, is_hive_mind, limit, memory_types, fault)
    \/ \E user_id \in UserIdArgs, is_hive_mind \in BOOLEAN, limit \in Limits,
          fault \in QueryFaults \ {"chroma"} :
          get_recent_memories(user_id, is_hive_mind, limit, fault)

SpecRetrieve == InitRetrieve /\ [][NextRetrieve]_vars

(***************************************************************************)
(* BrahmaInterface.generate_response called with a conversation history    *)
(* (brahma.py 39-112).                                                     *)
(***************************************************************************)
MaxHistory == 3

\* an element of conversation_history: a turn of the user, of the assistant,
\* of another role, or something that is no dict
TurnKinds == {"user", "assistant", "system", "not_a_dict"}

HistoryTurn(kind, i) ==
    [is_dict |-> kind # "not_a_dict", role |-> kind, content |-> <<"turn", i>>]

\* the conversation_history arguments: None, or up to MaxHistory elements
HistoryArgs ==
    {None} \cup
    UNION {{Some([i \in 1..n |-> HistoryTurn(kinds[i], i)]) :
               kinds \in [1..n -> TurnKinds]} : n \in 0..MaxHistory}

SystemMessage(content) == [type |-> "system", content |-> content]
HumanMessage(content) == [type |-> "human", content |-> content]
AIMessage(content) == [type |-> "ai", content |-> content]

\* brahma.py 71-84: the messages of the history from its i-th element on
RECURSIVE HistoryMessages(_, _)
HistoryMessages(history, i) ==
    IF i > Len(history) THEN <<>>
    ELSE IF ~history[i].is_dict THEN HistoryMessages(history, i + 1)
    ELSE IF history[i].role = "user"
    THEN <<HumanMessage(history[i].content)>> \o HistoryMessages(history, i + 1)
    ELSE IF history[i].role = "assistant"
    THEN <<AIMessage(history[i].content)>> \o HistoryMessages(history, i + 1)
    ELSE HistoryMessages(history, i + 1)

\* as BuildMessages, but the history is put after the current message
BuildMessages_HistoryLast(system_prompt, user_message, conversation_history) ==
    <<SystemMessage(system_prompt), HumanMessage(user_message)>>
    \o (IF conversation_history = None THEN <<>>
        ELSE HistoryMessages(The(conversation_history), 1))

\* brahma.py 62-87: the messages handed to llm.invoke
BuildMessages(system_prompt, user_message, conversation_history) ==
    <<SystemMessage(system_prompt)>>
    \o (IF conversation_history = None THEN <<>>
        ELSE HistoryMessages(The(conversation_history), 1))
    \o <<HumanMessage(user_message)>>

\* brahma.py 39-112: one call of generate_response
brahma_generate_response(conversation, conversation_history, llm) ==
    /\ agent_call.op = "none"
    /\ \E g \in {GenerateResponse(conversation.system_prompt, conversation.user_message,
                                  IF conversation_history = None THEN <<>>
                                  ELSE The(conversation_history),
                                  llm, conversation.assistant_response)} :
          agent_call' =
              [NoAgentCall EXCEPT
                  !.op = "generate_response",
                  !.conversation = Some(conversation),
                  !.conversation_history = conversation_history,
                  !.llm = llm,
                  !.raised = g.raised,
                  !.llm_calls = 1,
                  !.messages = BuildMessages(conversation.system_prompt,
                                             conversation.user_message,
                                             conversation_history)]
    /\ UNCHANGED <<store_vars, call_vars, pipeline_vars, saves>>

NextBrahma ==
    \E conversation \in Conversations, conversation_history \in HistoryArgs,
       llm \in LlmOutcomes :
        brahma_generate_response(conversation, conversation_history, llm)

SpecBrahma == Init /\ [][NextBrahma]_vars

(***************************************************************************)
(* The pipeline of one chat request (server.py 56-84).  The workflow       *)
(* (src/graph/workflow.py is not part of the sources) runs the stages in   *)
(* the order of the specification, section 4.4:                            *)
(*     Start -> BuildContext -> Generate -> UpdateMemory -> Done           *)
(***************************************************************************)
\* as StageAfter, but UpdateMemory is entered again after it returned
StageAfter_Reruns(pc, raised) ==
    IF raised THEN "Failed"
    ELSE CASE pc = "Start" -> "BuildContext"
           [] pc = "BuildContext" -> "Generate"
           [] pc = "Generate" -> "UpdateMemory"
           [] pc = "UpdateMemory" -> "UpdateMemory"

\* the stage that follows a stage that returned, and the end after a stage
\* that raised
StageAfter(pc, raised) ==
    IF raised THEN "Failed"
    ELSE CASE pc = "Start" -> "BuildContext"
           [] pc = "BuildContext" -> "Generate"
           [] pc = "Generate" -> "UpdateMemory"
           [] pc = "UpdateMemory" -> "Done"

\* response.content of the completion for request r
ResponseText(r) == "reply" \o ToString(r)

\* POST /chat arrives: workflow.invoke(user_id, user_message, history) starts
chat(r, user_id, user_message) ==
    /\ req[r].pc = "Start"
    /\ req' = [req EXCEPT ![r] = [@ EXCEPT !.pc = StageAfter("Start", FALSE),
                                           !.user_id = user_id,
                                           !.user_message = user_message]]
    /\ UNCHANGED <<agent_call, saves, store_vars, call_vars, config, now, next_uuid, injected>>

\* as vishnu_process, but the identity of the context is stored at once
vishnu_process_StoresIdentity(r) ==
    /\ req[r].pc = "BuildContext"
    /\ \E env \in {e \in VishnuEnvs : injected + VishnuFaultCount(e) <= MaxFaults} :
          \E c \in VishnuProcess(memory_collection, chroma_collection,
                                 identity_collection, config, req[r].user_id,
                                 req[r].user_message, now, env) :
             /\ req' = [req EXCEPT ![r] =
                        [@ EXCEPT !.pc = StageAfter("BuildContext", FALSE),
                                  !.context = Some(c),
                                  !.faults = @ \cup VishnuFaults(config, env),
                                  !.log = @ \o <<"get_user_identity",
                                                 "retrieve_personal_memories",
                                                 "retrieve_hive_mind_memories">>]]
             /\ injected' = injected + VishnuFaultCount(env)
             /\ identity_collection' =
                   UpdateUserIdentity(identity_collection, c.user_identity, now,
                                      FALSE).ic
    /\ now' = now + 500
    /\ UNCHANGED <<agent_call, saves, memory_collection, chroma_collection, call_vars,
                   config, next_uuid>>

\* BuildContext: VishnuAgent.process
vishnu_process(r) ==
    /\ req[r].pc = "BuildContext"
    /\ \E env \in {e \in VishnuEnvs : injected + VishnuFaultCount(e) <= MaxFaults} :
          \E c \in VishnuProcess(memory_collection, chroma_collection,
                                 identity_collection, config, req[r].user_id,
                                 req[r].user_message, now, env) :
             /\ req' = [req EXCEPT ![r] =
                        [@ EXCEPT !.pc = StageAfter("BuildContext", FALSE),
                                  !.context = Some(c),
                                  !.faults = @ \cup VishnuFaults(config, env),
                                  !.log = @ \o <<"get_user_identity",
                                                 "retrieve_personal_memories",
                                                 "retrieve_hive_mind_memories">>]]
             /\ injected' = injected + VishnuFaultCount(env)
    /\ now' = now + 500
    /\ UNCHANGED <<agent_call, saves, store_vars, call_vars, config, next_uuid>>

\* Generate: BrahmaInterface.generate_response; its exception ends the request
\* with HTTP 500 (server.py 82-84)
generate_response(r) ==
    /\ req[r].pc = "Generate"
    /\ \E llm \in {o \in LlmOutcomes : injected + B2N(o = "raise") <= MaxFaults} :
          LET c == The(req[r].context)
              g == GenerateResponse(c.system_prompt, c.user_message, <<>>, llm,
                                    ResponseText(r))
          IN  /\ injected' = injected + B2N(llm = "raise")
              /\ req' = [req EXCEPT ![r] =
                         [@ EXCEPT !.pc = StageAfter("Generate", g.raised),
                                   !.response = g.response,
                                   !.full_conversation = g.full_conversation,
                                   !.status = IF g.raised THEN 500 ELSE 0,
                                   !.faults = @ \cup (IF llm = "raise"
                                                      THEN {"generate"} ELSE {}),
                                   !.log = Append(@, "llm.invoke")]]
    /\ UNCHANGED <<agent_call, saves, store_vars, call_vars, config, now, next_uuid>>

\* UpdateMemory: ShivaAgent.process, then the ChatResponse (server.py 72-77)
shiva_process(r) ==
    /\ req[r].pc = "UpdateMemory"
    /\ \E env \in {e \in ShivaEnvs : injected + ShivaFaultCount(e) <= MaxFaults} :
          \E out \in {ShivaProcess(memory_collection, chroma_collection,
                                    identity_collection, config, req[r].user_id,
                                    The(req[r].full_conversation),
                                    The(req[r].context).user_identity,
                                    next_uuid, now, env)} :
              /\ memory_collection' = out.mc
              /\ chroma_collection' = out.cc
              /\ identity_collection' = out.ic
              /\ next_uuid' = out.uuid
              /\ injected' = injected + ShivaFaultCount(env)
              /\ req' = [req EXCEPT ![r] =
                            [@ EXCEPT !.pc = StageAfter("UpdateMemory", out.raised),
                                      !.memory_ids = out.memory_ids,
                                      !.status = IF out.raised THEN 500 ELSE 200,
                                      !.faults = @ \cup out.faults,
                                      !.log = @ \o out.log]]
    /\ now' = now + 500
    /\ UNCHANGED <<agent_call, saves, call_vars, config>>

InitPipeline ==
    /\ InitStores
    /\ config \in Configs

NextPipeline ==
    \/ \E r \in Requests, user_id \in Users, user_message \in Messages :
          chat(r, user_id, user_message)
    \/ \E r \in Requests : vishnu_process(r)
    \/ \E r \in Requests : generate_response(r)
    \/ \E r \in Requests : shiva_process(r)

SpecPipeline == InitPipeline /\ [][NextPipeline]_vars

\* workflow.invoke is one sequential call: a request that was received runs
\* each of its stages, none waits for another request.
Stage(r) == vishnu_process(r) \/ generate_response(r) \/ shiva_process(r)

SpecPipelineFair ==
    /\ SpecPipeline
    /\ \A r \in Requests : WF_vars(Stage(r))

(***************************************************************************)
(* Claims about MemoryStorage, checked under Spec.                         *)
(***************************************************************************)
IsQuery == last.op \in {"search_memories", "get_recent_memories"}
PersonalCall == IsQuery /\ TruthyStr(last.user_id) /\ ~last.is_hive_mind
SharedCall == IsQuery /\ last.is_hive_mind
SavedOk == last.op = "save_memory" /\ ~last.raised

\* C1: scope isolation.  A record whose stored document has shared = false and
\* owner A is not returned by a search or recent scoped to Personal(B), B # A,
\* nor by a Shared-scoped search or recent.
C1_ScopeIsolation ==
    IsQuery =>
        \A i \in DOMAIN last.ret :
            LET doc == memory_collection[last.ret[i].memory_id] IN
            ~doc.is_hive_mind =>
                /\ PersonalCall => doc.user_id = The(last.user_id)
                /\ ~SharedCall

\* The (owner, shared) pairs a call's scope filter lets through.
ScopePairs ==
    {p \in Users \X BOOLEAN :
        IF last.op = "search_memories"
        THEN WhereMatches([user_id |-> p[1], is_hive_mind |-> Str(p[2]),
                           memory_type |-> "preference"], last.where)
        ELSE QueryMatches([user_id |-> p[1], is_hive_mind |-> p[2]], last.query)}

\* C2: whatever the arguments, the filter of a search or recent is Personal(u)
\* for one owner u (shared = false and owner_id = u) or Shared (shared = true,
\* any owner); it never matches the personal records of two owners.
C2_ExactlyOneScope ==
    IsQuery =>
        \/ \E u \in Users : ScopePairs = {<<u, FALSE>>}
        \/ ScopePairs = Users \X {TRUE}

\* C8: save round trip.  After save(r) returns, the document under r.id equals
\* r in every field and the call returned r.id; this holds after a re-save of
\* the same id as well (upsert).
C8_SaveRoundTrip ==
    SavedOk =>
        LET r == The(last.memory) IN
        /\ r.memory_id \in DOMAIN memory_collection
        /\ DecodeMemory(memory_collection[r.memory_id]) = r
        /\ memory_collection[r.memory_id]._id = r.memory_id
        /\ last.ret_id = Some(r.memory_id)

\* C9: when the vector upsert fails after the document write succeeded, save
\* still returns the id without raising, and the document is stored.
C9_VectorFailureReportsSuccess ==
    (last.op = "save_memory" /\ last.fault = "chroma"
        /\ HasEmbedding(The(last.memory))) =>
        /\ ~last.raised
        /\ last.ret_id = Some(The(last.memory).memory_id)
        /\ The(last.memory).memory_id \in DOMAIN memory_collection

\* C10: a save touches the vector index only if the record has an embedding;
\* the entry it writes is keyed by the record's id and carries the record's
\* owner_id, category, created_at, shared and tags.  A save of a record
\* without an embedding leaves the vector index as it was.
C10_VectorEntryOnlyWithEmbedding ==
    [][(writes' = writes + 1 /\ last'.op = "save_memory") =>
        LET r == The(last'.memory)
            id == r.memory_id
        IN  /\ r.embedding = None => chroma_collection' = chroma_collection
            /\ chroma_collection' # chroma_collection =>
                /\ r.embedding # None
                /\ DOMAIN chroma_collection' = DOMAIN chroma_collection \cup {id}
                /\ \A k \in DOMAIN chroma_collection :
                      k # id => chroma_collection'[k] = chroma_collection[k]
            /\ (~last'.raised /\ r.embedding # None) =>
                LET e == chroma_collection'[id] IN
                /\ e.embedding = The(r.embedding)
                /\ e.metadata.user_id = r.user_id
                /\ e.metadata.memory_type = r.memory_type
                /\ e.metadata.timestamp = <<"iso", r.timestamp>>
                /\ e.metadata.is_hive_mind = (IF r.is_hive_mind THEN "True" ELSE "False")
                /\ Len(e.metadata.tags) =
                      (IF Len(r.tags) = 0 THEN 0 ELSE 2 * Len(r.tags) - 1)
                /\ \A i \in DOMAIN r.tags : e.metadata.tags[2 * i - 1] = r.tags[i]
    ]_vars

C10_Witness ==
    /\ SavedOk
    /\ The(last.memory).embedding # None
    /\ Len(The(last.memory).tags) > 1
    /\ The(last.memory).memory_id \in DOMAIN chroma_collection

\* The index entries a search's filter matches: its candidate set.
Candidates(where) ==
    {id \in DOMAIN chroma_collection :
        WhereMatches(chroma_collection[id].metadata, where)}

\* The scope and the categories of the search match the record r.
SearchCovers(call, r) ==
    /\ call.op = "search_memories"
    /\ IF r.is_hive_mind THEN call.is_hive_mind
       ELSE ~call.is_hive_mind /\ call.user_id = Some(r.user_id)
    /\ TruthyList(call.memory_types) =>
          r.memory_type \in Range(The(call.memory_types))

\* C11: index membership.  After save(r) succeeded for a record r with an
\* embedding, r is in the candidate set of every search whose scope matches r
\* and whose categories are absent or contain r's category; when the limit is
\* at least the size of the candidate set and no backend fails, the search
\* returns r, with the field values save stored.
C11_IndexMembership ==
    [][(SavedOk /\ HasEmbedding(The(last.memory)) /\ SearchCovers(last', The(last.memory)))
        => LET r == The(last.memory) IN
           /\ r.memory_id \in Candidates(last'.where)
           /\ (last'.fault = "none"
               /\ last'.limit >= Cardinality(Candidates(last'.where))) =>
                  \E i \in DOMAIN last'.ret :
                      /\ last'.ret[i].memory_id = r.memory_id
                      /\ last'.ret[i].user_id = r.user_id
                      /\ last'.ret[i].memory_type = r.memory_type
                      /\ last'.ret[i].content = r.content
                      /\ last'.ret[i].embedding = r.embedding]_vars

\* a search with a category set has returned two records with embeddings
C11_Witness ==
    /\ last.op = "search_memories"
    /\ last.fault = "none"
    /\ TruthyList(last.memory_types)
    /\ Len(last.ret) = 2
    /\ \A i \in DOMAIN last.ret : last.ret[i].embedding # None

\* The stored documents of the scope of the last call: Personal(u) or Shared.
ScopeDocs ==
    {id \in DOMAIN memory_collection :
        IF last.is_hive_mind THEN memory_collection[id].is_hive_mind
        ELSE /\ ~memory_collection[id].is_hive_mind
             /\ memory_collection[id].user_id = The(last.user_id)}

\* The ids of a returned sequence, and that none is returned twice.
RetIds == {last.ret[i].memory_id : i \in DOMAIN last.ret}
RetDistinct ==
    \A i, j \in DOMAIN last.ret :
        last.ret[i].memory_id = last.ret[j].memory_id => i = j

\* C12: a record whose stored document has no embedding is never returned by
\* a search, whatever saves came before (also an earlier save of the same id
\* with an embedding); a recent with the matching scope returns it whenever
\* it is among the `limit` newest matching records.
C12_NoEmbeddingNeverSearched ==
    /\ last.op = "search_memories" =>
          \A i \in DOMAIN last.ret :
              memory_collection[last.ret[i].memory_id].embedding # None
    /\ (last.op = "get_recent_memories" /\ last.fault = "none"
        /\ (PersonalCall \/ SharedCall)) =>
          \A id \in ScopeDocs :
              (/\ memory_collection[id].embedding = None
               /\ Cardinality({k \in ScopeDocs :
                     memory_collection[k].timestamp
                        >= memory_collection[id].timestamp}) <= last.limit)
                  => id \in RetIds

\* C14: a search returns the documents of the document store for ids the
\* vector index selected: each returned record is the stored document of its
\* id, whose index entry the filter matches, none twice, at most `limit` and,
\* when no backend fails, as many as the index selects; consecutive results
\* have a non-increasing recency_value.
C14_HydratedAndSortedByRecency ==
    last.op = "search_memories" =>
        /\ \A i \in DOMAIN last.ret :
              /\ last.ret[i].memory_id \in DOMAIN memory_collection
              /\ last.ret[i] = DecodeMemory(memory_collection[last.ret[i].memory_id])
              /\ last.ret[i].memory_id \in Candidates(last.where)
        /\ RetDistinct
        /\ Len(last.ret) <= last.limit
        /\ last.fault = "none" =>
              Len(last.ret) = Min(last.limit, Cardinality(Candidates(last.where)))
        /\ \A i \in 1..(Len(last.ret) - 1) :
              last.ret[i].recency_value >= last.ret[i + 1].recency_value

\* two records returned, the one with the larger recency_value first although
\* it is the older one
C14_Witness ==
    /\ last.op = "search_memories"
    /\ Len(last.ret) = 2
    /\ last.ret[1].recency_value > last.ret[2].recency_value
    /\ last.ret[1].timestamp < last.ret[2].timestamp

\* C15: recent reads the document store only.  It returns stored documents
\* that its query matches, none twice, newest first; with no backend fault it
\* returns the `limit` newest of the scope's documents, or all of them if
\* they are fewer, with or without an embedding or an index entry.
C15_RecentNewestFirst ==
    last.op = "get_recent_memories" =>
        /\ \A i \in DOMAIN last.ret :
              /\ last.ret[i].memory_id \in DOMAIN memory_collection
              /\ last.ret[i] = DecodeMemory(memory_collection[last.ret[i].memory_id])
              /\ last.ret[i].is_hive_mind = last.is_hive_mind
        /\ RetDistinct
        /\ \A i \in 1..(Len(last.ret) - 1) :
              last.ret[i].timestamp >= last.ret[i + 1].timestamp
        /\ (last.fault \in {"none", "chroma"} /\ (PersonalCall \/ SharedCall)) =>
              /\ RetIds \subseteq ScopeDocs
              /\ Len(last.ret) = Min(last.limit, Cardinality(ScopeDocs))
              /\ \A id \in ScopeDocs \ RetIds : \A i \in DOMAIN last.ret :
                    memory_collection[id].timestamp <= last.ret[i].timestamp

\* of two documents of the scope the newer one is returned under limit 1; it
\* has no embedding and no index entry
C15_Witness ==
    /\ last.op = "get_recent_memories"
    /\ PersonalCall
    /\ last.limit = 1
    /\ Cardinality(ScopeDocs) = 2
    /\ Len(last.ret) = 1
    /\ last.ret[1].embedding = None
    /\ last.ret[1].memory_id \notin DOMAIN chroma_collection
    /\ \E id \in ScopeDocs : memory_collection[id].timestamp < last.ret[1].timestamp

\* C16: every record a search returns matches the scope filter and, when a
\* category set is given, has a category in the set; the filter is the scope
\* condition and the category condition together, the scope condition as it
\* is without categories.
C16_CategoryFilter ==
    last.op = "search_memories" =>
        /\ \A i \in DOMAIN last.ret :
              /\ WhereMatches(ChromaMetadata(last.ret[i]),
                              ScopeWhere(last.user_id, last.is_hive_mind))
              /\ TruthyList(last.memory_types) =>
                    last.ret[i].memory_type \in Range(The(last.memory_types))
        /\ \A id \in DOMAIN chroma_collection :
              WhereMatches(chroma_collection[id].metadata, last.where)
                 <=> /\ WhereMatches(chroma_collection[id].metadata,
                                     ScopeWhere(last.user_id, last.is_hive_mind))
                     /\ TruthyList(last.memory_types) =>
                           chroma_collection[id].metadata.memory_type
                              \in Range(The(last.memory_types))

\* C13: search, recent and get_identity fail soft.  When a backend they
\* consult raises (the vector query, the document query, the decoding of a
\* document), search and recent return the empty sequence and get_identity
\* returns no identity; none of them raises.
C13_FailSoft ==
    /\ (last.op = "search_memories" /\ last.fault # "none") => last.ret = <<>>
    /\ (last.op = "get_recent_memories" /\ last.fault \in {"mongo", "decode"}) =>
          last.ret = <<>>
    /\ (last.op = "get_user_identity" /\ last.fault # "none") =>
          last.ret_identity = None
    /\ last.op \in {"search_memories", "get_recent_memories", "get_user_identity"} =>
          ~last.raised

\* the lookup of a stored identity met a fault and returned nothing
C13_Witness ==
    /\ last.op = "get_user_identity"
    /\ last.fault # "none"
    /\ The(last.user_id) \in DOMAIN identity_collection
    /\ last.ret_identity = None

\* C18: retrieval is read-only.  A step of search, recent or get_identity
\* leaves the memory collection, the identity collection and the vector index
\* as they were, whether it returns records, nothing, or meets a fault.
C18_RetrievalReadOnly ==
    [][last'.op \in {"search_memories", "get_recent_memories", "get_user_identity"}
          => UNCHANGED store_vars]_vars

\* a lookup that found no identity, with records and another identity stored
C18_Witness ==
    /\ last.op = "get_user_identity"
    /\ last.fault = "none"
    /\ last.ret_identity = None
    /\ identity_collection # EmptyCollection
    /\ The(last.user_id) \notin DOMAIN identity_collection

\* A stored datetime is the time t to the millisecond.
StoredTime(d, t) == d <= t /\ t - d < MicrosPerMilli /\ d % MicrosPerMilli = 0

\* The content of the two identities is the same, updated_at aside.
SameContent(a, b) ==
    a.user_id = b.user_id /\ a.name = b.name /\ a.created_at = b.created_at

\* C19: put_identity is an upsert keyed by user_id.  It stores the caller's
\* identity with updated_at set to the current time, whatever the caller
\* supplied, and leaves the other users' profiles alone; a second call with
\* the same content leaves the one stored profile equal to the first except
\* for updated_at; on a backend error it returns false, raises nothing and
\* stores nothing.
C19_PutIdentity ==
    [][last'.op = "update_user_identity" =>
        LET identity == The(last'.identity)
            u == identity.user_id
        IN  /\ ~last'.raised
            /\ last'.ret_ok = (last'.fault = "none")
            /\ ~last'.ret_ok => identity_collection' = identity_collection
            /\ last'.ret_ok =>
                  /\ DOMAIN identity_collection' = DOMAIN identity_collection \cup {u}
                  /\ \A v \in DOMAIN identity_collection :
                        v # u => identity_collection'[v] = identity_collection[v]
                  /\ identity_collection'[u]._id = u
                  /\ identity_collection'[u].user_id = u
                  /\ identity_collection'[u].name = identity.name
                  /\ StoredTime(identity_collection'[u].created_at, identity.created_at)
                  /\ StoredTime(identity_collection'[u].updated_at, now')
                  /\ (last.op = "update_user_identity" /\ last.ret_ok
                      /\ SameContent(The(last.identity), identity)) =>
                        [identity_collection'[u] EXCEPT !.updated_at = 0]
                           = [identity_collection[u] EXCEPT !.updated_at = 0]]_vars

\* the second of two calls for one user, with a supplied updated_at that is
\* not the one stored
C19_Witness ==
    /\ last.op = "update_user_identity"
    /\ last.ret_ok
    /\ writes = 2
    /\ now = 2500
    /\ DOMAIN identity_collection = {The(last.identity).user_id}
    /\ The(last.identity).updated_at = 9900
    /\ identity_collection[The(last.identity).user_id].updated_at < 9900

(***************************************************************************)
(* Claims about the pipeline, checked under SpecPipeline.                  *)
(***************************************************************************)
Terminal == {"Done", "Failed"}
UpdateMemoryFaults == {"extraction", "create_node", "save", "identity_update"}
Replied(r) ==
    /\ req[r].pc = "Done"
    /\ req[r].status = 200
    /\ req[r].response = Some(ResponseText(r))

C4_GenerateFailureSurfaces ==
    \A r \in Requests :
        "generate" \in req[r].faults =>
            /\ req[r].pc = "Failed"
            /\ req[r].status = 500
            /\ req[r].response = None
            /\ req[r].full_conversation = None
            /\ req[r].memory_ids = <<>>

C4_Witness ==
    \E r \in Requests : "generate" \in req[r].faults /\ req[r].status = 500

\* The exchange of request r: its user message and the reply of its Generate.
OwnExchange(r) ==
    /\ req[r].full_conversation # None
    /\ The(req[r].full_conversation).user_message = req[r].user_message
    /\ The(req[r].full_conversation).assistant_response = ResponseText(r)
    /\ req[r].response = Some(ResponseText(r))

\* One stage forward, for the request r.
StagesInOrder(r) ==
    /\ req'[r].pc # req[r].pc =>
          <<req[r].pc, req'[r].pc>> \in
              {<<"Start", "BuildContext">>, <<"BuildContext", "Generate">>,
               <<"Generate", "UpdateMemory">>, <<"Generate", "Failed">>,
               <<"UpdateMemory", "Done">>}
    /\ req[r].pc \in {"Generate", "UpdateMemory"} \cup Terminal =>
          /\ req[r].context # None
          /\ req'[r].context = req[r].context
    /\ req[r].pc \in {"Start", "BuildContext"} => req[r].response = None
    /\ req[r].pc \in Terminal => req'[r] = req[r]
    /\ req[r].pc = "UpdateMemory" => OwnExchange(r)

\* The step writes the stores as the one UpdateMemory of the request r.
WrittenByUpdateMemory(r) ==
    /\ req[r].pc = "UpdateMemory" /\ req'[r].pc = "Done"
    /\ OwnExchange(r)
    /\ \A q \in Requests \ {r} : req'[q] = req[q]
    /\ \A id \in DOMAIN memory_collection' :
          (id \notin DOMAIN memory_collection
           \/ memory_collection'[id] # memory_collection[id]) =>
              /\ memory_collection'[id].user_id = req[r].user_id
              /\ memory_collection'[id].conversation_context
                    = Some(ExchangeText(The(req[r].full_conversation)))

\* C5: within a request the stages run in the order BuildContext, Generate,
\* UpdateMemory.  Every step moves one request one stage forward; the stores
\* are written only by the UpdateMemory step of a request whose Generate has
\* returned a reply; the context is retrieved before Generate and not
\* afterwards; UpdateMemory runs at most once, on the exchange of its own
\* request, and the records it writes carry that exchange.
C5_StageOrder ==
    [][(\A r \in Requests : StagesInOrder(r))
       /\ (store_vars' # store_vars =>
              \E r \in Requests : WrittenByUpdateMemory(r))]_vars

\* two requests are done, the second one with a context retrieved from the
\* records written by the first
C5_Witness ==
    \E r, q \in Requests :
        /\ r # q
        /\ req[r].pc = "Done" /\ req[q].pc = "Done"
        /\ req[r].memory_ids # <<>>
        /\ The(req[q].context).personal_memories # <<>>

\* The outcome of a request that ended: the reply, or the failure of Generate.
OutcomeIsReplyOrGenerateFailure(r) ==
    /\ req[r].pc = "Done" =>
          /\ req[r].status = 200
          /\ req[r].response = Some(ResponseText(r))
          /\ "generate" \notin req[r].faults
    /\ req[r].pc = "Failed" =>
          /\ req[r].status = 500
          /\ req[r].response = None
          /\ "generate" \in req[r].faults
    /\ req[r].pc \notin Terminal => req[r].status = 0

\* C6: every request that was received ends, in exactly one of two ways: with
\* the reply, or with one failure; it fails only when Generate failed, never
\* because a call on the document store, the vector index, the embedding
\* service or the classifier failed; and the outcome, once given, stands.
C6_TerminatesInReplyOrFailure ==
    /\ [](\A r \in Requests : OutcomeIsReplyOrGenerateFailure(r))
    /\ [][\A r \in Requests : req[r].pc \in Terminal => req'[r] = req[r]]_vars
    /\ \A r \in Requests : (req[r].pc # "Start") ~> (req[r].pc \in Terminal)

\* a request that met a fault of the stores and still ended with the reply
C6_Witness ==
    \E r \in Requests :
        /\ req[r].pc = "Done"
        /\ req[r].status = 200
        /\ req[r].faults \cap {"save", "identity_update", "identity_lookup",
                               "personal_retrieval", "hive_retrieval",
                               "embedding", "extraction", "intent"} # {}

\* UserIdentity(user_id = ...) as the constructor initializes it at time t:
\* an empty profile, created at t and not updated before
FreshIdentity(identity, user_id, t) ==
    /\ identity.user_id = user_id
    /\ identity.name = None
    /\ identity.created_at = t
    /\ identity.updated_at >= t

\* C7: BuildContext never aborts.  Its step always hands a context bundle to
\* Generate; when the identity lookup failed or found nothing the bundle
\* carries a freshly initialized identity of the requesting user; a failed
\* intent detection gives no intent and a failed retrieval an empty list.
C7_BuildContextNeverAborts ==
    [][\A r \in Requests :
          req[r].pc = "BuildContext" /\ req'[r] # req[r] =>
              /\ req'[r].pc = "Generate"
              /\ req'[r].context # None
              /\ LET c == The(req'[r].context)
                     met == req'[r].faults \ req[r].faults
                 IN  /\ c.user_identity.user_id = req[r].user_id
                     /\ c.user_message = req[r].user_message
                     /\ ("identity_lookup" \in met
                         \/ req[r].user_id \notin DOMAIN identity_collection) =>
                            FreshIdentity(c.user_identity, req[r].user_id, now)
                     /\ "intent" \in met => c.intent = None
                     /\ "personal_retrieval" \in met => c.personal_memories = <<>>
                     /\ "hive_retrieval" \in met => c.hive_mind_memories = <<>>]_vars

\* the lookup of a stored identity failed and the request went on to Generate
C7_Witness ==
    \E r \in Requests :
        /\ req[r].pc = "Generate"
        /\ "identity_lookup" \in req[r].faults
        /\ req[r].user_id \in DOMAIN identity_collection
        /\ FreshIdentity(The(req[r].context).user_identity, req[r].user_id,
                         The(req[r].context).user_identity.created_at)

\* C20: the identity lifecycle.  Once an identity is stored for a user, no
\* step of any pipeline run, sequential or concurrent, with or without a
\* failed lookup, deletes it or changes its created_at or profile fields;
\* only updated_at is refreshed.
C20_IdentityLifecycle ==
    [][\A u \in DOMAIN identity_collection :
          /\ u \in DOMAIN identity_collection'
          /\ identity_collection'[u].created_at = identity_collection[u].created_at
          /\ identity_collection'[u].name = identity_collection[u].name]_vars

\* the request r makes its UpdateMemory step
UpdatesMemory(r) == req[r].pc = "UpdateMemory" /\ req'[r].pc # "UpdateMemory"

\* C26: every record the UpdateMemory stage of a request of user u stores is
\* owned by u, not shared, of recency 1.0 and origin "conversation", under an
\* id no record had before, with the first 500 characters of the system
\* prompt as its snippet; the stage stores no shared record and changes no
\* stored record.
C26_ConversationRecords ==
    [][/\ \A id \in DOMAIN memory_collection :
             /\ id \in DOMAIN memory_collection'
             /\ memory_collection'[id] = memory_collection[id]
       /\ DOMAIN memory_collection' # DOMAIN memory_collection =>
             \E r \in Requests : UpdatesMemory(r)
       /\ \A r \in Requests : UpdatesMemory(r) =>
             \A id \in DOMAIN memory_collection' \ DOMAIN memory_collection :
                LET doc == memory_collection'[id] IN
                /\ doc.user_id = req[r].user_id
                /\ ~doc.is_hive_mind
                /\ doc.recency_value = 10
                /\ doc.source = "conversation"
                /\ id >= next_uuid /\ id < next_uuid'
                /\ doc.system_prompt_snippet # None
                /\ TextLen(The(doc.system_prompt_snippet)) <= SnippetLimit
                /\ The(doc.system_prompt_snippet) =
                      Slice(The(req[r].full_conversation).system_prompt, SnippetLimit)]_vars

\* a request has stored two records, each with a snippet cut to 500 characters
C26_Witness ==
    \E r \in Requests :
        /\ req[r].pc = "Done"
        /\ Len(req[r].memory_ids) = 2
        /\ \A i \in DOMAIN req[r].memory_ids :
              /\ req[r].memory_ids[i] \in DOMAIN memory_collection
              /\ TextLen(The(memory_collection[req[r].memory_ids[i]].system_prompt_snippet))
                    = SnippetLimit
              /\ TextLen(The(req[r].full_conversation).system_prompt) > SnippetLimit

\* C33: the ids ShivaAgent.process returns are exactly the ids of the
\* records the call wrote to the document store, also when a later save of
\* the same call fails.
C33_ReturnedIdsAreWrittenIds ==
    [][\A r \in Requests : UpdatesMemory(r) =>
          Range(req'[r].memory_ids)
             = {id \in DOMAIN memory_collection' :
                   \/ id \notin DOMAIN memory_collection
                   \/ memory_collection'[id] # memory_collection[id]}]_vars

\* the request r makes a step of its own
StepOf(r) == req'[r] # req[r]

\* the request r has ended with the failure of its Generate stage
GenerateFailed(r) == req[r].pc = "Failed" /\ "generate" \in req[r].faults

\* C34: a request whose Generate stage fails leaves the three stores as they
\* were.  Its steps up to and including Generate write no store (the identity
\* BuildContext created or refreshed is kept in the context only), the failure
\* ends the request, and no later step of the request follows, so UpdateMemory
\* does not run.
C34_GenerateFailureWritesNothing ==
    [][\A r \in Requests :
          /\ (StepOf(r) /\ req[r].pc \in {"Start", "BuildContext", "Generate"}) =>
                UNCHANGED store_vars
          /\ (StepOf(r) /\ req[r].pc = "BuildContext") =>
                /\ req'[r].context # None
                /\ The(req'[r].context).user_identity.user_id = req[r].user_id
          /\ (StepOf(r) /\ req[r].pc = "Generate" /\ "generate" \in req'[r].faults) =>
                /\ req'[r].pc = "Failed"
                /\ req'[r].memory_ids = <<>>
          /\ GenerateFailed(r) => ~StepOf(r)
          /\ (\A q \in Requests : GenerateFailed(q)' \/ req'[q].pc = "Start") =>
                /\ memory_collection' = EmptyCollection
                /\ identity_collection' = EmptyCollection
                /\ chroma_collection' = EmptyCollection]_vars

\* the Generate stage of the first request of a user failed; the identity
\* created for its context is not stored
C34_Witness ==
    \E r \in Requests :
        /\ GenerateFailed(r)
        /\ req[r].status = 500
        /\ The(req[r].context).user_identity.user_id = req[r].user_id
        /\ req[r].user_id \notin DOMAIN identity_collection
        /\ \A q \in Requests \ {r} : req[q].pc = "Start"

(***************************************************************************)
(* Claims about concurrent saves, checked under SpecConcurrentSaves.       *)
(***************************************************************************)
SaveComplete(p) == saves[p].pc \in {"returned", "raised"}

SaveId(p) == The(saves[p].memory).memory_id

\* what save_memory leaves when the call of p runs alone on empty stores
Alone(p) ==
    SaveMemory(EmptyCollection, EmptyCollection, The(saves[p].memory), saves[p].fault)

\* the value the collection holds for the id, None when it holds none
Held(coll, id) == IF id \in DOMAIN coll THEN Some(coll[id]) ELSE None

\* the callers that wrote the id to MongoDB, to ChromaDB
MongoWriters(id) == {p \in Savers : SaveId(p) = id /\ saves[p].mongo_at > 0}
ChromaWriters(id) == {p \in Savers : SaveId(p) = id /\ saves[p].chroma_at > 0}

LastMongoWriter(id) ==
    CHOOSE p \in MongoWriters(id) :
        \A q \in MongoWriters(id) : saves[q].mongo_at <= saves[p].mongo_at

LastChromaWriter(id) ==
    CHOOSE p \in ChromaWriters(id) :
        \A q \in ChromaWriters(id) : saves[q].chroma_at <= saves[p].chroma_at

\* C17: concurrent saves.  When all the calls have completed: a call whose id
\* no other call uses leaves in both backends, for its id, what it leaves
\* when it runs alone, under every interleaving; and for every id each
\* backend holds exactly the value written by the call that wrote to that
\* backend last, never a merged or partial value.
C17_ConcurrentSaves ==
    (\A p \in Savers : SaveComplete(p)) =>
        /\ \A p \in Savers :
              (\A q \in Savers \ {p} : SaveId(q) # SaveId(p)) =>
                  /\ Held(memory_collection, SaveId(p)) = Held(Alone(p).mc, SaveId(p))
                  /\ Held(chroma_collection, SaveId(p)) = Held(Alone(p).cc, SaveId(p))
        /\ \A id \in MemoryIds :
              /\ Held(memory_collection, id) =
                    IF MongoWriters(id) = {} THEN None
                    ELSE Some(MemoryDocument(The(saves[LastMongoWriter(id)].memory)))
              /\ Held(chroma_collection, id) =
                    IF ChromaWriters(id) = {} THEN None
                    ELSE Some(ChromaEntry(The(saves[LastChromaWriter(id)].memory)))

\* two completed saves of different records with one id, where the one that
\* wrote the document first wrote the index entry last
C17_Witness ==
    /\ \A p \in Savers : saves[p].pc = "returned"
    /\ SaveId(1) = SaveId(2)
    /\ saves[1].memory # saves[2].memory
    /\ saves[1].mongo_at < saves[2].mongo_at
    /\ saves[2].chroma_at > 0
    /\ saves[2].chroma_at < saves[1].chroma_at

\* no save_memory call is between its entry and its return
NoSaveInFlight == \A p \in Savers : saves[p].pc \in {"idle", "returned", "raised"}

\* C31: backend agreement.  Whenever no save is in flight, the metadata of
\* every index entry (user_id, is_hive_mind, memory_type) equals the fields
\* of the document stored under the same id, also after concurrent saves of
\* one id, a re-save without an embedding and a save that failed part-way.
C31_BackendAgreement ==
    NoSaveInFlight =>
        \A id \in DOMAIN chroma_collection :
            /\ id \in DOMAIN memory_collection
            /\ chroma_collection[id].metadata.user_id = memory_collection[id].user_id
            /\ chroma_collection[id].metadata.is_hive_mind =
                  Str(memory_collection[id].is_hive_mind)
            /\ chroma_collection[id].metadata.memory_type =
                  memory_collection[id].memory_type

\* C32: in every reachable state every id of the vector index has a document
\* in the document store: the document is written before the index entry, a
\* failed document write ends the save, and nothing deletes a document.
C32_IndexedIdsHaveDocuments ==
    DOMAIN chroma_collection \subseteq DOMAIN memory_collection

\* one save failed at its document write and left nothing, the other one
\* wrote its document and its index entry
C32_Witness ==
    /\ saves[1].pc = "raised"
    /\ saves[1].fault = "mongo"
    /\ HasEmbedding(The(saves[1].memory))
    /\ saves[2].pc = "returned"
    /\ SaveId(1) # SaveId(2)
    /\ DOMAIN chroma_collection = {SaveId(2)}
    /\ DOMAIN memory_collection = {SaveId(2)}

(***************************************************************************)
(* Claims about ShivaAgent's methods, checked under SpecShiva.             *)
(***************************************************************************)
\* _extract_memory_signals has been called, and its result is at hand
Extracted == agent_call.reply # None

\* the text holds the piece verbatim
Contains(text, piece) == \E i \in DOMAIN text : text[i] = piece

\* the signal's content holds the user's text and the reply of the exchange
HoldsExchange(signal) ==
    /\ Contains(signal.content, The(agent_call.conversation).user_message)
    /\ Contains(signal.content, The(agent_call.conversation).assistant_response)

\* C21: the extraction fallback.  With the classifier enabled, a response
\* without a parseable array (no brackets, or brackets around text that is
\* not JSON) makes extract return exactly one signal, whose content holds
\* the user's text and the reply.
C21_ExtractionFallback ==
    (Extracted /\ config.extraction_enabled
     /\ The(agent_call.reply).kind \in {"no_array", "bad_json"}) =>
        /\ Len(agent_call.signals) = 1
        /\ HoldsExchange(agent_call.signals[1])

\* C22: with the classifier disabled extract returns exactly one signal, with
\* the user's text and the reply verbatim in its content, category factual
\* and no tags, and makes no request to the classifier.
C22_DisabledExtraction ==
    (Extracted /\ ~config.extraction_enabled) =>
        /\ Len(agent_call.signals) = 1
        /\ HoldsExchange(agent_call.signals[1])
        /\ agent_call.signals[1].memory_type = "factual"
        /\ agent_call.signals[1].tags = <<>>
        /\ agent_call.llm_calls = 0
        /\ ~agent_call.raised

\* the classifier is disabled and would have failed had it been asked
C22_Witness ==
    /\ Extracted
    /\ ~config.extraction_enabled
    /\ The(agent_call.reply).kind = "raise"
    /\ The(agent_call.conversation).user_message = "long message"

\* C23: extract never raises, and when the call of the classifier fails it
\* returns the single signal of the disabled case: the user's text and the
\* reply in its content, category factual, no tags.
C23_ClassifierFailure ==
    Extracted =>
        /\ ~agent_call.raised
        /\ (config.extraction_enabled /\ The(agent_call.reply).kind = "raise") =>
              /\ Len(agent_call.signals) = 1
              /\ HoldsExchange(agent_call.signals[1])
              /\ agent_call.signals[1].memory_type = "factual"
              /\ agent_call.signals[1].tags = <<>>
              /\ agent_call.signals =
                    ExtractMemorySignals([config EXCEPT !.extraction_enabled = FALSE],
                                         The(agent_call.conversation),
                                         The(agent_call.reply))

\* C24: every signal extract returns and every stored record has a content
\* that is not empty: a parsed signal with a missing or empty content is
\* dropped.
C24_NonEmptyContent ==
    /\ \A i \in DOMAIN agent_call.signals : agent_call.signals[i].content # <<>>
    /\ \A id \in DOMAIN memory_collection : memory_collection[id].content # <<>>

\* the elements of the parsed array that the validation keeps
KeptItems ==
    SelectSeq(The(agent_call.reply).items, LAMBDA it : it.is_dict /\ it.has_content)

\* C25: a parsed signal without a category, or with one outside the closed
\* set, gives a record of category factual (the record is created all the
\* same), tags that are no list become the empty list, and every stored
\* record's category is in the closed set.
C25_CategoryNormalised ==
    /\ (Extracted /\ config.extraction_enabled
        /\ The(agent_call.reply).kind = "array") =>
          /\ Len(agent_call.signals) = Len(KeptItems)
          /\ \A i \in DOMAIN KeptItems :
                /\ ~KeptItems[i].has_type => agent_call.signals[i].memory_type = "factual"
                /\ KeptItems[i].has_type =>
                      agent_call.signals[i].memory_type = KeptItems[i].memory_type
                /\ ~KeptItems[i].tags_is_list => agent_call.signals[i].tags = <<>>
                /\ KeptItems[i].tags_is_list =>
                      agent_call.signals[i].tags = KeptItems[i].tags
    /\ (agent_call.op = "_create_memory_node"
        /\ agent_call.signals[agent_call.index].content_is_str) =>
          /\ agent_call.node # None
          /\ The(agent_call.node).memory_type =
                IF agent_call.signals[agent_call.index].memory_type \in MemoryType
                THEN agent_call.signals[agent_call.index].memory_type
                ELSE "factual"
    /\ \A id \in DOMAIN memory_collection :
          memory_collection[id].memory_type \in MemoryType

\* a record of category factual is stored for a signal of an unknown category
C25_Witness ==
    /\ agent_call.op = "save_memory"
    /\ ~last.raised
    /\ agent_call.signals[agent_call.index].memory_type = "unknown_type"
    /\ The(agent_call.ret_id) \in DOMAIN memory_collection
    /\ memory_collection[The(agent_call.ret_id)].memory_type = "factual"

\* C27: a disabled or failing embedding service never prevents the creation
\* of a record, on the conversation path and in create_hive_mind_memory: the
\* record is created and saved without an embedding.
C27_EmbeddingNeverFatal ==
    /\ (agent_call.op = "_create_memory_node"
        /\ agent_call.signals[agent_call.index].content_is_str
        /\ (~config.embedding_enabled \/ agent_call.embed = "raise")) =>
          /\ agent_call.node # None
          /\ The(agent_call.node).embedding = None
    /\ (agent_call.op = "create_hive_mind_memory" /\ agent_call.fault = "none"
        /\ (~config.embedding_enabled \/ agent_call.embed = "raise")) =>
          /\ agent_call.ret_id # None
          /\ The(agent_call.ret_id) \in DOMAIN memory_collection
          /\ memory_collection[The(agent_call.ret_id)].embedding = None

\* the shared record that the last create_hive_mind_memory stored
SharedCreated ==
    /\ agent_call.op = "create_hive_mind_memory"
    /\ agent_call.ret_id # None

\* the document the successful call must have stored
SharedDocument(call, uuid) ==
    [_id |-> uuid, memory_id |-> uuid, user_id |-> call.user_id,
     content |-> call.content, memory_type |-> call.memory_type,
     tags |-> IF call.tags = None THEN <<>> ELSE The(call.tags),
     is_hive_mind |-> TRUE]

\* the fields of the stored document that the caller chose, and its scope
CallerFields(doc) ==
    [_id |-> doc._id, memory_id |-> doc.memory_id, user_id |-> doc.user_id,
     content |-> doc.content, memory_type |-> doc.memory_type, tags |-> doc.tags,
     is_hive_mind |-> doc.is_hive_mind]

\* what the stores and the queries show of the shared record
SharedVisible ==
    SharedCreated =>
        LET id == The(agent_call.ret_id) IN
        /\ id \in DOMAIN memory_collection
        /\ QueryMatches(memory_collection[id], RecentQuery(None, TRUE))
        /\ \A u \in Users :
              /\ QueryMatches(memory_collection[id], RecentQuery(Some(u), TRUE))
              /\ ~QueryMatches(memory_collection[id], RecentQuery(Some(u), FALSE))
        /\ HasEmbedding(memory_collection[id]) =>
              /\ id \in Candidates(WhereClause(None, TRUE, None))
              /\ \A u \in Users :
                    /\ id \in Candidates(WhereClause(Some(u), TRUE, None))
                    /\ id \notin Candidates(WhereClause(Some(u), FALSE, None))
        /\ PersonalCall => id \notin RetIds
        /\ (SharedCall /\ last.op = "get_recent_memories") => id \in RetIds
        /\ (SharedCall /\ last.op = "search_memories"
            /\ HasEmbedding(memory_collection[id])) => id \in RetIds

\* C28: when create_hive_mind_memory succeeds, exactly one new record exists,
\* shared, owned by the caller's user, with the caller's content, category
\* and tags as given; it is a candidate of the Shared retrieval of every
\* user, and no Personal retrieval of any user returns it.
C28_CreateShared ==
    [][/\ (agent_call'.op = "create_hive_mind_memory" /\ next_uuid' = next_uuid + 1
           /\ agent_call'.ret_id # None) =>
             /\ agent_call'.ret_id = Some(next_uuid)
             /\ DOMAIN memory_collection' = DOMAIN memory_collection \cup {next_uuid}
             /\ next_uuid \notin DOMAIN memory_collection
             /\ \A id \in DOMAIN memory_collection :
                   memory_collection'[id] = memory_collection[id]
             /\ CallerFields(memory_collection'[next_uuid])
                   = SharedDocument(agent_call', next_uuid)
       /\ SharedVisible']_vars

\* a Personal search of the creator, made after the shared record was stored
\* next to a personal record of the same user, does not return it
C28_Witness ==
    /\ SharedCreated
    /\ last.op = "search_memories"
    /\ PersonalCall
    /\ last.user_id = Some(agent_call.user_id)
    /\ HasEmbedding(memory_collection[The(agent_call.ret_id)])
    /\ Len(last.ret) = 1

(***************************************************************************)
(* Claims about retrieval, checked under SpecRetrieve.                     *)
(***************************************************************************)
IsRetrieval == last.op \in {"retrieve_personal_memories", "retrieve_hive_mind_memories"}

\* C29: retrieve_personal and retrieve_shared return at most 3 records, none
\* twice; search and recent return at most `limit` records, none twice; and
\* without a query embedding the retriever answers as recent does for the
\* same scope: the newest records of the scope, newest first, also those
\* without an embedding, instead of failing.
C29_BoundedRetrieval ==
    /\ (IsQuery \/ IsRetrieval) => (Len(last.ret) <= last.limit /\ RetDistinct)
    /\ IsRetrieval => Len(last.ret) <= 3
    /\ (IsRetrieval /\ agent_call.embed = "unavailable"
        /\ last.fault \in {"none", "chroma"}) =>
          /\ ~last.raised
          /\ RetIds \subseteq ScopeDocs
          /\ Len(last.ret) = Min(3, Cardinality(ScopeDocs))
          /\ \A i \in 1..(Len(last.ret) - 1) :
                last.ret[i].timestamp >= last.ret[i + 1].timestamp
          /\ \A id \in ScopeDocs \ RetIds : \A i \in DOMAIN last.ret :
                memory_collection[id].timestamp <= last.ret[i].timestamp

\* four personal records are stored and the embedding is unavailable: three
\* are retrieved, one of them without an embedding
C29_Witness ==
    /\ last.op = "retrieve_personal_memories"
    /\ agent_call.embed = "unavailable"
    /\ Cardinality(ScopeDocs) = 4
    /\ Len(last.ret) = 3
    /\ \E i \in DOMAIN last.ret : last.ret[i].embedding = None

(***************************************************************************)
(* Claims about the completion request, checked under SpecBrahma.          *)
(***************************************************************************)
\* the history the call was given, empty when it was given none
GivenHistory ==
    IF agent_call.conversation_history = None THEN <<>>
    ELSE The(agent_call.conversation_history)

\* the turns of the user and of the assistant in the history, in their order
PriorTurns ==
    SelectSeq(GivenHistory, LAMBDA m : m.is_dict /\ m.role \in {"user", "assistant"})

\* C30: the messages sent to the completion service begin with the system
\* context and end with the current user message; between them are the prior
\* turns of the user and of the assistant, in their order, each under its own
\* role; and the call makes exactly one completion request.
C30_MessageSequence ==
    agent_call.op = "generate_response" =>
        LET messages == agent_call.messages
            conversation == The(agent_call.conversation)
        IN  /\ Len(messages) = Len(PriorTurns) + 2
            /\ messages[1] = [type |-> "system", content |-> conversation.system_prompt]
            /\ messages[Len(messages)] =
                  [type |-> "human", content |-> conversation.user_message]
            /\ \A i \in DOMAIN PriorTurns :
                  /\ messages[i + 1].content = PriorTurns[i].content
                  /\ messages[i + 1].type =
                        IF PriorTurns[i].role = "user" THEN "human" ELSE "ai"
            /\ agent_call.llm_calls = 1

\* a history of an assistant turn, an entry of another role and a user turn
C30_Witness ==
    /\ agent_call.op = "generate_response"
    /\ Len(GivenHistory) = 3
    /\ GivenHistory[1].role = "assistant"
    /\ GivenHistory[2].role = "system"
    /\ GivenHistory[3].role = "user"
    /\ Len(agent_call.messages) = 4

=============================================================================
